---- MODULE Spec2Model ----
(***************************************************************************)
(* Core of the emulator: the virtual clock and its event queue             *)
(* (CoreTiming), the tick-accounting hooks of the CPU execution unit       *)
(* (UserCallbacks in core/cpu/cpu.cpp), the cheat tick (core/cheat_core)   *)
(* the kernel handle table (core/hle/kernel/handle_table.cpp), the time    *)
(* slots of the shared page (core/hle/shared_page.cpp) and the system      *)
(* controller (System::Load, RunLoop, Shutdown of core/core.cpp).          *)
(*                                                                         *)
(* core/core_timing.cpp is not part of the available sources: the clock    *)
(* and the queue are modelled from the written contract of section 4.1     *)
(* of the specification; their callers are modelled from the code.         *)
(***************************************************************************)
EXTENDS Integers, Sequences, FiniteSets, TLC

\* ------------------------------------------------------------------ bounds
\* handle values are 0..HandleSpace-1: the 32-bit Handle, scaled down
HandleSpace == 6
\* handles that may be live in the table at a time
MaxLive == 2
\* current_tick is capped at MaxTick in the guards of the time-advancing steps
MaxTick == 2
\* delays passed to ScheduleEvent by the generic subsystems: 0..MaxDelay
MaxDelay == 1
\* pending entries the generic subsystems may pile up (the cheat tick comes on top)
MaxQueue == 2
\* BASE_CLOCK_RATE_ARM11 (ticks per second), scaled down
CheatPeriod == 1
\* refreshes of the shared page (UpdateTimeCallback runs) that are followed
MaxRefresh == 3
\* the request packets that can wait in the RPC queue
MaxRequests == 1
\* msToCycles(60 * 60 * 1000) (ticks per guest hour), scaled down
RefreshPeriod == 2

\* ------------------------------------------------------------- event types
\* tick_event is CheatCore's event; T1 stands for the other registered kinds
\* of work, whose callbacks do not re-arm themselves
tick_event == "tick_event"
\* the shared page's event
update_time_event == "update_time_event"
GenericTypes == {"T1"}
EventTypes == GenericTypes \cup {tick_event, update_time_event}
UserData == {0, 1}

\* cycles executed by one block, and the values of Settings::values.ticks
BlockCycles == {1, 2}
SettingsTicks == {0, 1}

TicksModes == {"Auto", "Accurate", "Custom"}
\* titles: one listed in custom_ticks_map, one not
ProgramIds == {"listed", "unlisted"}

VARIABLES
    current_tick,       \* CoreTiming: emulated cycles since boot
    event_queue,        \* CoreTiming: pending entries, earliest first
    use_custom_ticks,   \* UserCallbacks::use_custom_ticks
    custom_ticks,       \* UserCallbacks::custom_ticks
    fired,              \* history: callbacks invoked by the last operation
    cheat_active,       \* CheatCore::Init has run and CheatCore::Shutdown has not
    last_op,            \* history: the last operation and its arguments
    armed,              \* history: downcount armed by a ScheduleEvent, or None
    objects,            \* HandleTable::objects: handle -> object
    handle_counter,     \* HandleTable::handle_counter
    current_thread,     \* what Kernel::GetCurrentThread() returns
    current_process,    \* what KernelSystem::GetCurrentProcess() returns
    held,               \* object -> kernel code holds a SharedPtr to it
    born,               \* objects constructed so far
    destroyed,          \* objects whose destructor has run
    ht_last,            \* history: the last handle-table call and its result
    batch,              \* history: the Create calls since the last Close
    exhausted,          \* history: the counter has reached the pseudo-handle values
    stale,              \* history: handle values closed or cleared, not issued since
    date_time_counter,  \* SharedPageDef::date_time_counter
    date_time_0,        \* SharedPageDef::date_time_0: field -> refresh that wrote it
    date_time_1,        \* SharedPageDef::date_time_1: field -> refresh that wrote it
    w_pc,               \* UpdateTimeCallback: fields written by the running refresh
    r_pc,               \* guest reader: "idle", "reading" or "done"
    r_counter,          \* guest reader: the counter value it read
    r_got,              \* guest reader: field -> what it read from the slot
    r_overlap,          \* history: the refreshes that acted during the read
    wifi_macaddr,       \* SharedPageDef::wifi_macaddr, standing for the non-time fields
    init_input,         \* Settings::values.init_clock and init_time, the host's clock
    init_time,          \* Module::init_time
    console_time,       \* history: what the last GetSystemTime() returned
    cpu_core,           \* System::cpu_core is not null
    running,            \* System::running
    shutdown_requested, \* System::shutdown_requested
    status,             \* System::status
    output_allowed,     \* what dsp_core->IsOutputAllowed() returns
    m_pc,               \* machine thread: where it is in RunLoop
    c_pc,               \* controlling thread: where it is in SetRunning
    work,               \* history: the steps of the current RunLoop iteration
    woke_paused,        \* history: the iteration left the pause wait, running false
    flag_at_entry,      \* history: shutdown_requested when the iteration started
    sys_last,           \* history: the last call that returned, and its result
    init_trace,         \* history: what the last Init() set up, in order
    shutdown_trace,     \* history: the steps of the last Shutdown(), in order
    settings,           \* Settings::values: ticks_mode and ticks
    title,              \* the program id the loader reads from the chosen file
    mem_page_table,     \* what Memory::GetCurrentPageTable() returns
    current_page_table, \* Cpu::current_page_table
    jits,               \* Cpu::jits: page table -> translation cache
    jit,                \* Cpu::jit: the active translation cache
    jit_made,           \* history: the number of MakeJit() calls of this Cpu
    ran_with,           \* history: the cache and the page table of the last Run()
    jit_state,          \* translation cache -> the registers its Jit holds
    vfp,                \* Cpu::state.vfp
    cp15,               \* Cpu::state.cp15
    saved,              \* the ThreadContext written by the last SaveContext
    at_save,            \* history: the whole register state when it was saved
    cheats_list,        \* Engine::cheats_list: the enabled cheats' lines
    unflushed,          \* bytes written outside translated code, not invalidated
    rpc_pc,             \* RPC thread: where it is in HandleWriteMemory
    foreign,            \* history: calls made by other threads during RunLoop
    set_application_file_path, \* System::set_application_file_path
    m_filepath,         \* System::m_filepath: the path of the last successful Load
    app_pc,             \* RPC thread: where it is in System::SetApplication
    ui_pc,              \* UI thread: where it is in GMainWindow::OnCoreError
    requested,          \* history: the path of the most recent request
    target,             \* history: the path OnCoreError read for the reboot
    request_queue,      \* RPCServer::request_queue: the packets not yet taken
    replies,            \* history: the replies sent for the packet taken last
    written,            \* history: the guest bytes RPC requests have stored to
    pad_state           \* Service::HID pad state, standing for the input state

clock_vars == <<current_tick, event_queue, use_custom_ticks, custom_ticks,
                cheat_active, fired, last_op, armed>>
table_vars == <<objects, handle_counter, current_thread, current_process, held,
                born, destroyed, ht_last, batch, exhausted, stale>>
page_vars == <<date_time_counter, date_time_0, date_time_1, w_pc, r_pc, r_counter,
               r_got, r_overlap, wifi_macaddr, init_input, init_time, console_time>>
sys_vars == <<cpu_core, running, shutdown_requested, status, output_allowed, m_pc,
              c_pc, work, woke_paused, flag_at_entry, sys_last>>
trace_vars == <<init_trace, shutdown_trace>>
tick_vars == <<settings, title>>
app_vars == <<set_application_file_path, app_pc, ui_pc, requested, target>>
rpc_vars == <<request_queue, replies, written, pad_state>>
jit_vars == <<mem_page_table, current_page_table, jits, jit, jit_made, ran_with>>
reg_vars == <<jit_state, vfp, cp15, saved, at_save>>
cache_vars == <<cheats_list, unflushed, rpc_pc, foreign>>
cpu_vars == <<tick_vars, app_vars, rpc_vars, m_filepath, jit_vars, reg_vars,
              cache_vars>>
vars == <<clock_vars, table_vars, page_vars, sys_vars, trace_vars, cpu_vars>>

\* what the operations of one component leave alone
outside_clock == <<table_vars, page_vars, sys_vars, trace_vars, cpu_vars>>
outside_table == <<clock_vars, page_vars, sys_vars, trace_vars, cpu_vars>>
outside_page == <<clock_vars, table_vars, sys_vars, trace_vars, cpu_vars>>

Max(a, b) == IF a >= b THEN a ELSE b

\* no value
None == 0 - 1

\* ------------------------------------------------------- the event queue
\* An entry is [type, time, userdata, fifo]; fifo numbers the ScheduleEvent
\* calls (it is history: the queue is ordered by its positions alone).
Entry(type, time, userdata, fifo) ==
    [type |-> type, time |-> time, userdata |-> userdata, fifo |-> fifo]

FifoOf(s) == {s[i].fifo : i \in 1..Len(s)}

MaxOf(S) == IF S = {} THEN 0 ELSE CHOOSE m \in S : \A x \in S : x <= m

\* number of the next ScheduleEvent call, given the pending and fired entries
NextFifo(q, log) == 1 + MaxOf(FifoOf(q) \cup FifoOf(log))

\* (mutant) insertion in front of the entries due at the same tick
InsertEvent_Lifo(q, e) ==
    LET k == Cardinality({i \in 1..Len(q) : q[i].time < e.time})
    IN  SubSeq(q, 1, k) \o <<e>> \o SubSeq(q, k + 1, Len(q))

\* insertion behind every entry that is due at the same tick or earlier
InsertEvent(q, e) ==
    LET k == Cardinality({i \in 1..Len(q) : q[i].time <= e.time})
    IN  SubSeq(q, 1, k) \o <<e>> \o SubSeq(q, k + 1, Len(q))

\* ScheduleEvent(delay, type, userdata) at tick now
ScheduleEvent(q, now, type, delay, userdata, fifo) ==
    InsertEvent(q, Entry(type, now + delay, userdata, fifo))

\* UnscheduleEvent(type, userdata): every matching pending entry is removed
UnscheduleEvent(q, type, userdata) ==
    SelectSeq(q, LAMBDA e : ~(e.type = type /\ e.userdata = userdata))

\* history: the pending entries renumbered 1..n in the order of their calls
Renumber(q) ==
    [i \in 1..Len(q) |->
        [q[i] EXCEPT !.fifo = Cardinality({f \in FifoOf(q) : f <= q[i].fifo})]]

\* (mutant) the cheat tick re-arms itself a full period after the tick it
\* fired at
CheatTickCallback_FromNow(q, now, cycles_late, fifo) ==
    ScheduleEvent(q, now, tick_event, CheatPeriod, 0, fifo)

\* CheatTickCallback(u64, int cycles_late): runs the engine and re-arms itself
CheatTickCallback(q, now, cycles_late, fifo) ==
    ScheduleEvent(q, now, tick_event, CheatPeriod - cycles_late, 0, fifo)

\* (mutant) the refresh does not re-arm itself
UpdateTimeCallback_Once(q, now, cycles_late, fifo) == q

\* (mutant) the refresh re-arms itself a full period after the tick it fired at
UpdateTimeCallback_FromNow(q, now, cycles_late, fifo) ==
    ScheduleEvent(q, now, update_time_event, RefreshPeriod, 0, fifo)

\* Module::UpdateTimeCallback(u64 userdata, int cycles_late): its re-arming
\* (its stores to the shared page are RefreshSlots below)
UpdateTimeCallback(q, now, cycles_late, fifo) ==
    ScheduleEvent(q, now, update_time_event, RefreshPeriod - cycles_late, 0, fifo)

\* the callback registered for a type
Callback(q, now, e, late, fifo) ==
    CASE e.type = tick_event        -> CheatTickCallback(q, now, late, fifo)
      [] e.type = update_time_event -> UpdateTimeCallback(q, now, late, fifo)
      [] OTHER                      -> q

\* (mutant) an entry due exactly at the current tick is not yet fired
IsDue_Strict(q, now) == q # <<>> /\ Head(q).time < now

\* is the earliest entry due at tick now
IsDue(q, now) == q # <<>> /\ Head(q).time <= now

RECURSIVE AdvanceLoop(_, _, _)
\* Advance(): pop and invoke while the earliest entry is due
AdvanceLoop(q, now, log) ==
    IF IsDue(q, now)
    THEN LET e    == Head(q)
             late == now - e.time
             rec  == [type |-> e.type, userdata |-> e.userdata, time |-> e.time,
                      fifo |-> e.fifo, late |-> late, at |-> now]
             log2 == Append(log, rec)
         IN  AdvanceLoop(Callback(Tail(q), now, e, late, NextFifo(q, log2)), now, log2)
    ELSE [queue |-> q, fired |-> log]

\* GetDowncount(): max(0, next_due_tick - current_tick), queue not empty
GetDowncount(q, now) == Max(0, Head(q).time - now)

\* (mutant) the clock is set to the next due tick unconditionally
IdleTick_Unconditional(q, now) == Head(q).time

\* Idle(): jump to the next due tick, never backward
IdleTick(q, now) == Max(now, Head(q).time)

\* ------------------------------------------------------- UserCallbacks
\* (mutant) the override is applied as an adjustment of the executed cycles
EffectiveTicks_Delta(use_custom, custom, ticks) ==
    IF use_custom THEN custom - ticks ELSE ticks

\* UserCallbacks::AddTicks: the ticks reported to the clock for one block
EffectiveTicks(use_custom, custom, ticks) == IF use_custom THEN custom ELSE ticks

\* (mutant) the clamp condition is inverted
GetTicksRemaining_Inverted(q, now) ==
    LET ticks == GetDowncount(q, now)
    IN  IF ticks >= 0 THEN 0 ELSE ticks

\* (mutant) a burst is always given at least one tick
GetTicksRemaining_AtLeastOne(q, now) ==
    LET ticks == GetDowncount(q, now)
    IN  IF ticks <= 0 THEN 1 ELSE ticks

\* UserCallbacks::GetTicksRemaining
GetTicksRemaining(q, now) ==
    LET ticks == GetDowncount(q, now)
    IN  IF ticks <= 0 THEN 0 ELSE ticks

\* custom_ticks_map, scaled down
custom_ticks_map == [p \in {"listed"} |-> 1]

\* (mutant) an unlisted title keeps what the first two assignments stored
SyncSettingsResult_Defaults(mode, ticks, program_id) ==
    CASE mode = "Custom"   -> <<ticks, TRUE>>
      [] mode = "Auto"     -> IF program_id \in DOMAIN custom_ticks_map
                              THEN <<custom_ticks_map[program_id], TRUE>>
                              ELSE <<ticks, TRUE>>
      [] mode = "Accurate" -> <<0, FALSE>>

\* UserCallbacks::SyncSettings: <<custom_ticks, use_custom_ticks>>
SyncSettingsResult(mode, ticks, program_id) ==
    CASE mode = "Custom"   -> <<ticks, TRUE>>
      [] mode = "Auto"     -> IF program_id \in DOMAIN custom_ticks_map
                              THEN <<custom_ticks_map[program_id], TRUE>>
                              ELSE <<0, FALSE>>
      [] mode = "Accurate" -> <<0, FALSE>>

\* CheatCore::Init
CheatCore_Init(q, now, fifo) == ScheduleEvent(q, now, tick_event, CheatPeriod, 0, fifo)

\* (mutant) Shutdown unschedules with another user data than Init scheduled
CheatCore_Shutdown_WrongData(q) == UnscheduleEvent(q, tick_event, 1)

\* CheatCore::Shutdown
CheatCore_Shutdown(q) == UnscheduleEvent(q, tick_event, 0)

\* ------------------------------------------------------------ shared page
\* the fields of a DateTime slot, in the order UpdateTimeCallback writes them
WriteOrder == <<"date_time", "update_tick", "tick_to_second_coefficient", "tick_offset">>
Fields == {WriteOrder[i] : i \in 1..Len(WriteOrder)}

\* times are counted in hours: a std::time_t is its seconds / 3600, a console
\* time is its milliseconds / 3,600,000; RefreshPeriod ticks are one hour
\* 2000-01-01 00:00 as a std::time_t (946,684,800 s), the host's zone being UTC
Epoch2000 == 262968
\* u64 console_time = 3155673600000ULL, the milliseconds from 1900 to 2000
Base1900 == 876576
\* 60 * 60 * 1000, added to a std::time_t, which counts seconds
DstShift == (60 * 60 * 1000) \div 3600

\* the host's clock and the clock settings a session can start under
InitInputs == [init_clock : {"SystemTime", "FixedTime"},
               now : {Epoch2000 - 1, Epoch2000 + 10},
               isdst : BOOLEAN,
               init_time : {Epoch2000 + 5, Epoch2000 + 2000}]

\* GetInitTime(): the host time, shifted when tm_isdst > 0, or the fixed time
GetInitTime(in) ==
    IF in.init_clock = "SystemTime"
    THEN IF in.isdst THEN in.now + DstShift ELSE in.now
    ELSE in.init_time

\* Module::GetSystemTime() at the tick `tick`: init_time plus the whole
\* seconds of GetGlobalTimeUs(), from the auxiliary epoch on, since 1900
GetSystemTime(init, tick) ==
    LET now == init + tick \div RefreshPeriod
    IN  IF now > Epoch2000 THEN Base1900 + (now - Epoch2000) ELSE Base1900

\* Module::Module: std::memset(&shared_page, 0, sizeof(shared_page))
ZeroSlot == [f \in Fields |-> 0]

\* wifi_macaddr after the constructor's memset, and the addresses set later
ZeroMac == "00:00:00:00:00:00"
MacAddresses == {"40:f4:07:00:00:01", "40:f4:07:00:00:02"}

\* (mutant) the refresh writes the slot the current parity selects for readers
WriteSlot_Active(counter) == IF counter % 2 = 1 THEN 1 ELSE 0

\* UpdateTimeCallback: counter % 2 ? date_time_0 : date_time_1
WriteSlot(counter) == IF counter % 2 = 1 THEN 0 ELSE 1

\* the guest: date_time_1 when the counter it read is odd, date_time_0 when even
ReadSlot(counter) == IF counter % 2 = 1 THEN 1 ELSE 0

\* (mutant) the generation counter advances by two, keeping its parity
NextCounter_Twice(counter) == counter + 2

\* the 32-bit date_time_counter after ++
NextCounter(counter) == counter + 1

RECURSIVE RefreshSlots(_, _)
\* the time slots and the counter after k whole runs of UpdateTimeCallback
RefreshSlots(page, k) ==
    IF k = 0 THEN page
    ELSE LET n   == NextCounter(page.counter)
             new == [f \in Fields |-> n]
         IN  RefreshSlots(
                [counter |-> n,
                 date_time_0 |-> IF WriteSlot(page.counter) = 0 THEN new
                                 ELSE page.date_time_0,
                 date_time_1 |-> IF WriteSlot(page.counter) = 1 THEN new
                                 ELSE page.date_time_1],
                k - 1)

\* the shared page after the callbacks of an Advance() have run
PageAfter(log) ==
    LET k == Len(SelectSeq(log, LAMBDA rec : rec.type = update_time_event))
        p == RefreshSlots([counter |-> date_time_counter,
                           date_time_0 |-> date_time_0,
                           date_time_1 |-> date_time_1], k)
    IN  /\ date_time_counter' = p.counter
        /\ date_time_0' = p.date_time_0
        /\ date_time_1' = p.date_time_1
        /\ console_time' = IF k = 0 THEN console_time
                           ELSE GetSystemTime(init_time, log[Len(log)].at)
        /\ UNCHANGED <<w_pc, r_pc, r_counter, r_got, r_overlap, wifi_macaddr,
                       init_input, init_time>>

\* ----------------------------------------------------------- cheat engine
\* guest addresses a cheat or an RPC request can name, scaled down
Addresses == {0}
\* the byte count a Patch cheat copies: a word and a byte
PatchLengths == {5}
\* the cheat types that store to guest memory and the bytes one store covers
WriteTypes == {"Write32", "Write16", "Write8"}
IncrementiveTypes == {"IncrementiveWrite32", "IncrementiveWrite16",
                      "IncrementiveWrite8"}
SizeOf(type) ==
    CASE type \in {"Write32", "IncrementiveWrite32"} -> 4
      [] type \in {"Write16", "IncrementiveWrite16"} -> 2
      [] type \in {"Write8", "IncrementiveWrite8"}   -> 1

\* one line of an enabled cheat: its type, the address it stores to and the
\* number of bytes it stores
CheatLines ==
    [type : {"Write32", "Write8", "IncrementiveWrite16"}, address : Addresses,
     length : {0}]
    \cup [type : {"Patch"}, address : Addresses, length : PatchLengths]

\* the bytes [start, start + length)
ByteRange(start, length) == start..(start + length - 1)

\* Cheat::Execute, one line: the bytes it stores to
LineWrites(line) ==
    IF line.type = "Patch" THEN ByteRange(line.address, line.length)
    ELSE ByteRange(line.address, SizeOf(line.type))

\* Cheat::Execute, one line: the bytes it passes to InvalidateCacheRange
LineInvalidates(line) ==
    IF line.type \in WriteTypes THEN ByteRange(line.address, SizeOf(line.type))
    ELSE {}

RECURSIVE EngineRun(_, _)
\* Engine::Run: the bytes written and not invalidated after the lines ran
EngineRun(lines, dirty) ==
    IF lines = <<>> THEN dirty
    ELSE EngineRun(Tail(lines),
                   (dirty \cup LineWrites(Head(lines))) \ LineInvalidates(Head(lines)))

\* the bytes written and not invalidated after the callbacks of an Advance():
\* every cheat tick runs the engine
CacheAfter(log, lines, dirty) ==
    IF \E i \in 1..Len(log) : log[i].type = tick_event
    THEN EngineRun(lines, dirty) ELSE dirty

\* ------------------------------------------------------------------- Init
NoOp == [op |-> "Init", type |-> "", userdata |-> 0, delay |-> 0, before |-> 0]

ClockInit ==
    /\ current_tick = 0
    /\ event_queue = <<>>
    /\ \E m \in TicksModes, t \in SettingsTicks, p \in ProgramIds :
          /\ custom_ticks = SyncSettingsResult(m, t, p)[1]
          /\ use_custom_ticks = SyncSettingsResult(m, t, p)[2]
    /\ fired = <<>>
    /\ cheat_active = FALSE
    /\ last_op = NoOp
    /\ armed = None


\* ---------------------------------------------------------------- actions
\* history record of an operation; before is current_tick when it was called
Op(name, type, userdata, delay) ==
    [op |-> name, type |-> type, userdata |-> userdata, delay |-> delay,
     before |-> current_tick]

\* history: the downcount armed by a ScheduleEvent whose entry became the
\* earliest one; None once that entry left the queue or the clock moved
ArmedBySchedule(q2, delay) ==
    IF Head(q2).fifo = Len(q2) THEN delay ELSE armed
ArmedByRemoval(type, userdata) ==
    IF event_queue # <<>> /\ Head(event_queue).type = type
                          /\ Head(event_queue).userdata = userdata
    THEN None ELSE armed

\* a subsystem schedules one of its events
DoScheduleEvent(type, delay, userdata) ==
    /\ Len(SelectSeq(event_queue, LAMBDA e : e.type \in GenericTypes)) < MaxQueue
    /\ event_queue' = Renumber(ScheduleEvent(event_queue, current_tick, type, delay,
                                             userdata, NextFifo(event_queue, <<>>)))
    /\ fired' = <<>>
    /\ last_op' = Op("ScheduleEvent", type, userdata, delay)
    /\ UNCHANGED outside_clock
    /\ armed' = ArmedBySchedule(event_queue', delay)
    /\ UNCHANGED <<current_tick, use_custom_ticks, custom_ticks, cheat_active>>

\* a subsystem removes its pending events
DoUnscheduleEvent(type, userdata) ==
    /\ event_queue' = Renumber(UnscheduleEvent(event_queue, type, userdata))
    /\ fired' = <<>>
    /\ last_op' = Op("UnscheduleEvent", type, userdata, 0)
    /\ UNCHANGED outside_clock
    /\ armed' = ArmedByRemoval(type, userdata)
    /\ UNCHANGED <<current_tick, use_custom_ticks, custom_ticks, cheat_active>>

\* CheatCore::Init
CheatInit ==
    /\ ~cheat_active
    /\ event_queue' = Renumber(CheatCore_Init(event_queue, current_tick,
                                              NextFifo(event_queue, <<>>)))
    /\ cheat_active' = TRUE
    /\ fired' = <<>>
    /\ last_op' = Op("ScheduleEvent", tick_event, 0, CheatPeriod)
    /\ UNCHANGED outside_clock
    /\ armed' = ArmedBySchedule(event_queue', CheatPeriod)
    /\ UNCHANGED <<current_tick, use_custom_ticks, custom_ticks>>

\* CheatCore::Shutdown
CheatShutdown ==
    /\ cheat_active
    /\ event_queue' = Renumber(CheatCore_Shutdown(event_queue))
    /\ cheat_active' = FALSE
    /\ fired' = <<>>
    /\ last_op' = Op("UnscheduleEvent", tick_event, 0, 0)
    /\ UNCHANGED outside_clock
    /\ armed' = ArmedByRemoval(tick_event, 0)
    /\ UNCHANGED <<current_tick, use_custom_ticks, custom_ticks>>

\* the execution unit reports one executed block of `ticks` cycles
AddTicks(ticks) ==
    LET n == EffectiveTicks(use_custom_ticks, custom_ticks, ticks)
    IN  /\ current_tick + n <= MaxTick
        /\ current_tick' = current_tick + n
        /\ fired' = <<>>
        /\ last_op' = Op("AddTicks", "", 0, ticks)
        /\ UNCHANGED outside_clock
        /\ armed' = IF n = 0 THEN armed ELSE None
        /\ UNCHANGED <<event_queue, use_custom_ticks, custom_ticks, cheat_active>>

\* Idle(); with nothing pending the clock may move forward by any amount
Idle ==
    /\ IF event_queue # <<>>
       THEN /\ Head(event_queue).time <= MaxTick
            /\ current_tick' = IdleTick(event_queue, current_tick)
       ELSE current_tick' \in current_tick..MaxTick
    /\ fired' = <<>>
    /\ last_op' = Op("Idle", "", 0, 0)
    /\ UNCHANGED outside_clock
    /\ armed' = IF current_tick' = current_tick THEN armed ELSE None
    /\ UNCHANGED <<event_queue, use_custom_ticks, custom_ticks, cheat_active>>

\* Advance(): every due entry is popped and its callback invoked
Advance ==
    LET r == AdvanceLoop(event_queue, current_tick, <<>>)
    IN  /\ event_queue' = Renumber(r.queue)
        /\ fired' = r.fired
        /\ last_op' = Op("Advance", "", 0, 0)
        /\ PageAfter(r.fired)
        /\ unflushed' = CacheAfter(r.fired, cheats_list, unflushed)
        /\ UNCHANGED <<tick_vars, app_vars, rpc_vars, m_filepath,
                       jit_vars, reg_vars, cheats_list, rpc_pc, foreign>>
        /\ UNCHANGED <<table_vars, sys_vars, trace_vars>>
        /\ armed' = IF r.fired = <<>> THEN armed ELSE None
        /\ UNCHANGED <<current_tick, use_custom_ticks, custom_ticks, cheat_active>>

\* SharedPage::Module::Module: the page is zeroed and the first refresh is
\* scheduled with delay 0; a page is constructed once per clock initialisation,
\* so none of its refreshes is pending
SharedPageConstruct ==
    /\ \A i \in 1..Len(event_queue) : event_queue[i].type # update_time_event
    /\ event_queue' = Renumber(ScheduleEvent(event_queue, current_tick,
                                             update_time_event, 0, 0,
                                             NextFifo(event_queue, <<>>)))
    /\ fired' = <<>>
    /\ last_op' = Op("ScheduleEvent", update_time_event, 0, 0)
    /\ date_time_counter' = 0
    /\ date_time_0' = ZeroSlot
    /\ date_time_1' = ZeroSlot
    /\ wifi_macaddr' = ZeroMac
    /\ init_time' = GetInitTime(init_input)
    /\ console_time' = 0
    /\ UNCHANGED <<w_pc, r_pc, r_counter, r_got, r_overlap, init_input>>
    /\ UNCHANGED <<table_vars, sys_vars, trace_vars, cpu_vars>>
    /\ armed' = ArmedBySchedule(event_queue', 0)
    /\ UNCHANGED <<current_tick, use_custom_ticks, custom_ticks, cheat_active>>

\* Cpu::SyncSettings
SyncSettings(mode, ticks, program_id) ==
    /\ custom_ticks' = SyncSettingsResult(mode, ticks, program_id)[1]
    /\ use_custom_ticks' = SyncSettingsResult(mode, ticks, program_id)[2]
    /\ fired' = <<>>
    /\ last_op' = Op("SyncSettings", "", 0, 0)
    /\ UNCHANGED outside_clock
    /\ UNCHANGED armed
    /\ UNCHANGED <<current_tick, event_queue, cheat_active>>

Next ==
    \/ \E type \in GenericTypes, d \in 0..MaxDelay, u \in UserData :
          DoScheduleEvent(type, d, u)
    \/ \E type \in GenericTypes, u \in UserData : DoUnscheduleEvent(type, u)
    \/ CheatInit
    \/ CheatShutdown
    \/ \E ticks \in BlockCycles : AddTicks(ticks)
    \/ Idle
    \/ Advance
    \/ \E m \in TicksModes, t \in SettingsTicks, p \in ProgramIds :
          SyncSettings(m, t, p)

\* the self re-arming events alone: the shared page and the cheat engine on
\* a clock the execution unit moves
NextRearm ==
    \/ SharedPageConstruct
    \/ CheatInit
    \/ CheatShutdown
    \/ \E ticks \in BlockCycles : AddTicks(ticks)
    \/ Idle
    \/ Advance

\* ========================================================== handle table
NULL == "null"
Threads == {"thread"}
Processes == {"process"}
Obj == Threads \cup Processes
Handles == 0..(HandleSpace - 1)

\* the pseudo-handles (0xFFFF8000 and 0xFFFF8001 of the 32-bit space)
CurrentThread == HandleSpace - 3
CurrentProcess == HandleSpace - 2

RESULT_SUCCESS == "RESULT_SUCCESS"
ERR_INVALID_HANDLE == "ERR_INVALID_HANDLE"

\* HandleTable::IsValid
IsValid(tbl, handle) == handle \in DOMAIN tbl

\* HandleTable::GetGeneric
GetGeneric(tbl, thread, process, handle) ==
    IF handle = CurrentThread THEN thread
    ELSE IF handle = CurrentProcess THEN process
    ELSE IF ~IsValid(tbl, handle) THEN NULL
    ELSE tbl[handle]

\* HandleTable::Create: objects.emplace(++handle_counter, obj).first->first;
\* emplace inserts nothing when the key is present
Create(tbl, counter, obj) ==
    LET key == (counter + 1) % HandleSpace
    IN  [objects |-> IF key \in DOMAIN tbl THEN tbl
                     ELSE [h \in DOMAIN tbl \cup {key} |->
                              IF h = key THEN obj ELSE tbl[h]],
         handle_counter |-> key,
         handle |-> key,
         rc |-> RESULT_SUCCESS]

\* HandleTable::Duplicate
Duplicate(tbl, counter, thread, process, handle) ==
    LET object == GetGeneric(tbl, thread, process, handle)
    IN  IF object = NULL
        THEN [objects |-> tbl, handle_counter |-> counter, handle |-> None,
              rc |-> ERR_INVALID_HANDLE]
        ELSE Create(tbl, counter, object)

\* (mutant) Close drops every handle of the object, not only the one closed
Close_WholeObject(tbl, handle) ==
    IF ~IsValid(tbl, handle)
    THEN [objects |-> tbl, rc |-> ERR_INVALID_HANDLE]
    ELSE [objects |-> [h \in {x \in DOMAIN tbl : tbl[x] # tbl[handle]} |-> tbl[h]],
          rc |-> RESULT_SUCCESS]

\* (mutant) Close erases without the IsValid check
Close_Unchecked(tbl, handle) ==
    [objects |-> [h \in DOMAIN tbl \ {handle} |-> tbl[h]], rc |-> RESULT_SUCCESS]

\* HandleTable::Close
Close(tbl, handle) ==
    IF ~IsValid(tbl, handle)
    THEN [objects |-> tbl, rc |-> ERR_INVALID_HANDLE]
    ELSE [objects |-> [h \in DOMAIN tbl \ {handle} |-> tbl[h]], rc |-> RESULT_SUCCESS]

\* (mutant) the entries stay in the table
Clear_Keep(tbl) == tbl

\* HandleTable::Clear
Clear(tbl) == [h \in {} |-> NULL]

\* the owning references to an object: table entries, the kernel's own
\* SharedPtr, and the current-thread and current-process pointers
RefCount(tbl, hld, thread, process, o) ==
    Cardinality({h \in DOMAIN tbl : tbl[h] = o})
      + (IF hld[o] THEN 1 ELSE 0)
      + (IF thread = o THEN 1 ELSE 0)
      + (IF process = o THEN 1 ELSE 0)

\* intrusive_ptr release: of the objects a call dropped a reference to, those
\* left without any reference are destroyed
Released(dropped, tbl, hld, thread, process) ==
    {o \in dropped \ {NULL} : RefCount(tbl, hld, thread, process, o) = 0}

Alive == born \ destroyed

\* history record of a Duplicate or Close call: its argument, the object the
\* argument resolved to, the result code and the handle returned
Call(name, handle, obj, rc, ret) ==
    [op |-> name, handle |-> handle, obj |-> obj, rc |-> rc, ret |-> ret]
\* history record of any other call
OtherCall == Call("other", None, NULL, RESULT_SUCCESS, None)

TableInit ==
    /\ objects = [h \in {} |-> NULL]
    /\ handle_counter = 0
    /\ current_thread = NULL
    /\ current_process = NULL
    /\ held = [o \in Obj |-> FALSE]
    /\ born = {}
    /\ destroyed = {}
    /\ ht_last = OtherCall
    /\ batch = <<>>
    /\ exhausted = FALSE
    /\ stale = {}

\* kernel code constructs an object and holds the first reference
NewObject(o) ==
    /\ o \notin born
    /\ born' = born \cup {o}
    /\ held' = [held EXCEPT ![o] = TRUE]
    /\ ht_last' = OtherCall
    /\ UNCHANGED outside_table
    /\ UNCHANGED <<objects, handle_counter, current_thread, current_process,
                   destroyed, batch, exhausted, stale>>

\* kernel code drops its reference
ReleaseRef(o) ==
    /\ held[o]
    /\ held' = [held EXCEPT ![o] = FALSE]
    /\ destroyed' = destroyed \cup
          Released({o}, objects, held', current_thread, current_process)
    /\ ht_last' = OtherCall
    /\ UNCHANGED outside_table
    /\ UNCHANGED <<objects, handle_counter, current_thread, current_process,
                   born, batch, exhausted, stale>>

\* a caller resolves a handle and keeps the SharedPtr it got
DoGetGeneric(handle) ==
    LET o == GetGeneric(objects, current_thread, current_process, handle)
    IN  /\ held' = IF o = NULL THEN held ELSE [held EXCEPT ![o] = TRUE]
        /\ ht_last' = OtherCall
        /\ UNCHANGED outside_table
        /\ UNCHANGED <<objects, handle_counter, current_thread, current_process,
                       born, destroyed, batch, exhausted, stale>>

\* the scheduler switches to a thread, or to none
SetCurrentThread(t) ==
    /\ t # current_thread
    /\ t \in Alive \cup {NULL}
    /\ current_thread' = t
    /\ destroyed' = destroyed \cup
          Released({current_thread}, objects, held, t, current_process)
    /\ ht_last' = OtherCall
    /\ UNCHANGED outside_table
    /\ UNCHANGED <<objects, handle_counter, current_process, held, born, batch, exhausted, stale>>

\* KernelSystem::SetCurrentProcess
SetCurrentProcess(p) ==
    /\ p # current_process
    /\ p \in Alive \cup {NULL}
    /\ current_process' = p
    /\ destroyed' = destroyed \cup
          Released({current_process}, objects, held, current_thread, p)
    /\ ht_last' = OtherCall
    /\ UNCHANGED outside_table
    /\ UNCHANGED <<objects, handle_counter, current_thread, held, born, batch, exhausted, stale>>

\* HandleTable::Create(obj), the caller holding obj
DoCreate(o) ==
    LET r == Create(objects, handle_counter, o)
    IN  /\ held[o]
        /\ Cardinality(DOMAIN objects) < MaxLive
        /\ Len(batch) < MaxLive
        /\ objects' = r.objects
        /\ handle_counter' = r.handle_counter
        /\ ht_last' = OtherCall
        /\ UNCHANGED outside_table
        /\ batch' = Append(batch, [handle |-> r.handle, obj |-> o])
        /\ exhausted' = (exhausted \/ r.handle_counter >= CurrentThread)
        /\ stale' = stale \ {r.handle}
        /\ UNCHANGED <<current_thread, current_process, held, born, destroyed>>

\* HandleTable::Duplicate(handle), for any 32-bit value
DoDuplicate(handle) ==
    LET o == GetGeneric(objects, current_thread, current_process, handle)
        r == Duplicate(objects, handle_counter, current_thread, current_process, handle)
    IN  /\ Cardinality(DOMAIN objects) < MaxLive
        /\ Len(batch) < MaxLive
        /\ objects' = r.objects
        /\ handle_counter' = r.handle_counter
        /\ ht_last' = Call("Duplicate", handle, o, r.rc, r.handle)
        /\ UNCHANGED outside_table
        /\ batch' = IF r.rc = RESULT_SUCCESS
                    THEN Append(batch, [handle |-> r.handle, obj |-> o])
                    ELSE batch
        /\ exhausted' = (exhausted \/ r.handle_counter >= CurrentThread)
        /\ stale' = stale \ {r.handle}
        /\ UNCHANGED <<current_thread, current_process, held, born, destroyed>>

\* HandleTable::Close(handle), for any 32-bit value
DoClose(handle) ==
    LET r == Close(objects, handle)
        o == IF IsValid(objects, handle) THEN objects[handle] ELSE NULL
    IN  /\ objects' = r.objects
        /\ destroyed' = destroyed \cup
              Released({objects[h] : h \in DOMAIN objects \ DOMAIN r.objects},
                       r.objects, held, current_thread, current_process)
        /\ ht_last' = Call("Close", handle, o, r.rc, None)
        /\ UNCHANGED outside_table
        /\ batch' = <<>>
        /\ stale' = stale \cup (DOMAIN objects \ DOMAIN r.objects)
        /\ UNCHANGED <<handle_counter, exhausted, current_thread, current_process, held, born>>

\* HandleTable::Clear()
DoClear ==
    /\ objects # Clear(objects)
    /\ objects' = Clear(objects)
    /\ destroyed' = destroyed \cup
          Released({objects[h] : h \in DOMAIN objects},
                   objects', held, current_thread, current_process)
    /\ ht_last' = OtherCall
    /\ UNCHANGED outside_table
    /\ batch' = <<>>
    /\ stale' = stale \cup DOMAIN objects
    /\ UNCHANGED <<handle_counter, exhausted, current_thread, current_process, held, born>>

NextHandle ==
    \/ \E o \in Obj : NewObject(o)
    \/ \E o \in Obj : ReleaseRef(o)
    \/ \E h \in Handles : DoGetGeneric(h)
    \/ \E t \in Threads \cup {NULL} : SetCurrentThread(t)
    \/ \E p \in Processes \cup {NULL} : SetCurrentProcess(p)
    \/ \E o \in Obj : DoCreate(o)
    \/ \E h \in Handles : DoDuplicate(h)
    \/ \E h \in Handles : DoClose(h)
    \/ DoClear

\* ============================================================ shared page
PageInit ==
    /\ date_time_counter = 0
    /\ date_time_0 = ZeroSlot
    /\ date_time_1 = ZeroSlot
    /\ w_pc = 0
    /\ r_pc = "idle"
    /\ r_counter = 0
    /\ r_got = [f \in {} |-> 0]
    /\ r_overlap = {}
    /\ wifi_macaddr = ZeroMac
    /\ init_time = 0
    /\ console_time = 0

\* the host's clock is outside daylight-saving time and the clock setting is
\* SystemTime
HostInit ==
    init_input = [init_clock |-> "SystemTime", now |-> Epoch2000 + 10,
                  isdst |-> FALSE, init_time |-> Epoch2000 + 5]

\* history: the refresh in progress is the (date_time_counter + 1)-th; it is
\* recorded while a read is under way
Overlap == IF r_pc = "reading" THEN r_overlap \cup {date_time_counter + 1}
           ELSE r_overlap

\* UpdateTimeCallback: one store to a field of the slot it selected
WriteField ==
    LET f == WriteOrder[w_pc + 1]
        n == date_time_counter + 1
    IN  /\ date_time_counter < MaxRefresh
        /\ w_pc < Len(WriteOrder)
        /\ IF WriteSlot(date_time_counter) = 0
           THEN /\ date_time_0' = [date_time_0 EXCEPT ![f] = n]
                /\ UNCHANGED date_time_1
           ELSE /\ date_time_1' = [date_time_1 EXCEPT ![f] = n]
                /\ UNCHANGED date_time_0
        /\ w_pc' = w_pc + 1
        /\ r_overlap' = Overlap
        /\ console_time' = IF f = "date_time"
                           THEN GetSystemTime(init_time, current_tick)
                           ELSE console_time
        /\ UNCHANGED <<date_time_counter, r_pc, r_counter, r_got, wifi_macaddr,
                       init_input, init_time>>
        /\ UNCHANGED outside_page

\* UpdateTimeCallback: ++shared_page.date_time_counter, after the four stores
IncrementCounter ==
    /\ w_pc = Len(WriteOrder)
    /\ date_time_counter' = NextCounter(date_time_counter)
    /\ w_pc' = 0
    /\ r_overlap' = Overlap
    /\ UNCHANGED <<date_time_0, date_time_1, r_pc, r_counter, r_got, wifi_macaddr,
                   init_input, init_time, console_time>>
    /\ UNCHANGED outside_page

\* the guest reads the generation counter
ReadCounter ==
    /\ r_pc \in {"idle", "done"}
    /\ r_pc' = "reading"
    /\ r_counter' = date_time_counter
    /\ r_got' = [f \in {} |-> 0]
    /\ r_overlap' = {}
    /\ UNCHANGED <<date_time_counter, date_time_0, date_time_1, w_pc, wifi_macaddr,
                   init_input, init_time, console_time>>
    /\ UNCHANGED outside_page

\* the guest reads one field of the slot the parity of its counter selects
ReadField(f) ==
    LET slot == IF ReadSlot(r_counter) = 0 THEN date_time_0 ELSE date_time_1
    IN  /\ r_pc = "reading"
        /\ f \notin DOMAIN r_got
        /\ r_got' = [g \in DOMAIN r_got \cup {f} |-> IF g = f THEN slot[f] ELSE r_got[g]]
        /\ r_pc' = IF DOMAIN r_got' = Fields THEN "done" ELSE "reading"
        /\ UNCHANGED <<date_time_counter, date_time_0, date_time_1, w_pc, r_counter,
                       r_overlap, wifi_macaddr, init_input, init_time, console_time>>
        /\ UNCHANGED outside_page

\* Module::SetMacAddress
SetMacAddress(addr) ==
    /\ wifi_macaddr' = addr
    /\ UNCHANGED <<date_time_counter, date_time_0, date_time_1, w_pc, r_pc, r_counter,
                   r_got, r_overlap, init_input, init_time, console_time>>
    /\ UNCHANGED outside_page

NextPage ==
    \/ \E addr \in MacAddresses : SetMacAddress(addr)
    \/ WriteField
    \/ IncrementCounter
    \/ ReadCounter
    \/ \E f \in Fields : ReadField(f)

\* ====================================================== CPU execution unit
\* page tables (guest address spaces); NoTable is the null pointer
PageTables == {"pt1", "pt2"}
NoTable == "null"
\* the page table of the process the loader creates
ProcessTable == "pt1"
\* values a register can hold
RegValues == {0, 1}
\* the parts of the state a Dynarmic Jit holds
JitParts == {"Regs", "ExtRegs", "Cpsr", "Fpscr"}
\* VFPSystemRegister values other than VFP_FPSCR
VfpRegs == {"VFP_FPEXC", "VFP_FPSID"}
\* a freshly made Jit, and the zeroed Cpu::state
FreshJit == [part \in JitParts |-> 0]
FreshVfp == [r \in VfpRegs |-> 0]
\* no translation cache (nullptr), no saved context, no Run() yet
NoJit == 0
NoContext == [valid |-> FALSE]
NoRun == [jit |-> NoJit, table |-> NoTable, asserted |-> TRUE, unflushed |-> {}]
\* the RPC thread outside HandleWriteMemory
RpcIdle == [at |-> "idle", bytes |-> {}]

CpuInit ==
    /\ settings = [ticks_mode |-> "Accurate", ticks |-> 0]
    /\ title = "unlisted"
    /\ mem_page_table = NoTable
    /\ current_page_table = NoTable
    /\ jits = [t \in {} |-> NoJit]
    /\ jit = NoJit
    /\ jit_made = 0
    /\ ran_with = NoRun
    /\ jit_state = [j \in {} |-> FreshJit]
    /\ vfp = FreshVfp
    /\ cp15 = 0
    /\ saved = NoContext
    /\ at_save = NoContext
    /\ cheats_list = <<>>
    /\ unflushed = {}
    /\ rpc_pc = RpcIdle
    /\ foreign = {}

\* (mutant) a translation cache is made on every call, without the lookup
PageTableChanged_AlwaysNew(table, c) ==
    [current_page_table |-> table,
     jit |-> c.jit_made + 1,
     jits |-> IF table \in DOMAIN c.jits THEN c.jits
              ELSE [t \in DOMAIN c.jits \cup {table} |->
                       IF t = table THEN c.jit_made + 1 ELSE c.jits[t]],
     jit_made |-> c.jit_made + 1]

\* Cpu::PageTableChanged with `table` what GetCurrentPageTable() returns; c is
\* the Cpu's current_page_table, jits, jit and the number of caches made so far
PageTableChanged(table, c) ==
    IF table \in DOMAIN c.jits
    THEN [current_page_table |-> table, jit |-> c.jits[table], jits |-> c.jits,
          jit_made |-> c.jit_made]
    ELSE [current_page_table |-> table,
          jit |-> c.jit_made + 1,
          jits |-> [t \in DOMAIN c.jits \cup {table} |->
                       IF t = table THEN c.jit_made + 1 ELSE c.jits[t]],
          jit_made |-> c.jit_made + 1]

\* Cpu::Cpu: no cache yet, then PageTableChanged()
NewCpu(table) ==
    PageTableChanged(table, [current_page_table |-> NoTable,
                             jits |-> [t \in {} |-> NoJit],
                             jit |-> NoJit, jit_made |-> 0])

\* the registers of the caches of c: those of `old`, a made cache's are fresh
JitStates(c, old) ==
    [j \in {c.jits[t] : t \in DOMAIN c.jits} \cup {c.jit} |->
        IF j \in DOMAIN old THEN old[j] ELSE FreshJit]

\* Memory::SetCurrentPageTable(table), which tells the CPU of the change
SetCurrentPageTable(table) ==
    LET c == PageTableChanged(table, [current_page_table |-> current_page_table,
                                      jits |-> jits, jit |-> jit,
                                      jit_made |-> jit_made])
    IN  /\ cpu_core
        /\ mem_page_table' = table
        /\ current_page_table' = c.current_page_table
        /\ jits' = c.jits
        /\ jit' = c.jit
        /\ jit_made' = c.jit_made
        /\ jit_state' = JitStates(c, jit_state)
        /\ UNCHANGED <<ran_with, vfp, cp15, saved, at_save>>
        /\ UNCHANGED <<clock_vars, table_vars, page_vars, sys_vars, trace_vars,
                       tick_vars, app_vars, rpc_vars, m_filepath, cache_vars>>

\* history: Cpu::Run: ASSERT(GetCurrentPageTable() == current_page_table);
\* jit->Run()
RunRecord(dirty) ==
    [jit |-> jit, table |-> mem_page_table,
     asserted |-> mem_page_table # current_page_table, unflushed |-> dirty]

\* Cpu::Run() on its own: the guest executes without reporting a block
CpuRun ==
    /\ cpu_core
    /\ ran_with' = RunRecord(unflushed)
    /\ UNCHANGED <<mem_page_table, current_page_table, jits, jit, jit_made>>
    /\ UNCHANGED <<clock_vars, table_vars, page_vars, sys_vars, trace_vars,
                   tick_vars, app_vars, rpc_vars, m_filepath, reg_vars, cache_vars>>

\* cpu_core.reset(): the Cpu, its caches and the thread contexts are gone
CpuDown ==
    /\ current_page_table' = NoTable
    /\ jits' = [t \in {} |-> NoJit]
    /\ jit' = NoJit
    /\ jit_made' = 0
    /\ jit_state' = [j \in {} |-> FreshJit]
    /\ ran_with' = NoRun
    /\ vfp' = FreshVfp
    /\ cp15' = 0
    /\ saved' = NoContext
    /\ at_save' = NoContext
    /\ unflushed' = {}

\* std::make_unique<Cpu>() in Init, and Memory::SetCurrentPageTable in Load
\* when `mapped`
CpuUp(mapped) ==
    LET made == NewCpu(mem_page_table)
        c    == IF mapped THEN PageTableChanged(ProcessTable, made) ELSE made
    IN  /\ current_page_table' = c.current_page_table
        /\ jits' = c.jits
        /\ jit' = c.jit
        /\ jit_made' = c.jit_made
        /\ jit_state' = JitStates(c, [j \in {} |-> FreshJit])
        /\ ran_with' = NoRun
        /\ vfp' = FreshVfp
        /\ cp15' = 0
        /\ saved' = NoContext
        /\ at_save' = NoContext
        /\ unflushed' = {}

\* ====================================================== system controller
\* Loader::ResultStatus values the loader can report
LoaderResults == {"Success", "ErrorEncrypted", "ErrorInvalidFormat", "Error"}
\* System::ResultStatus values VideoCore::Init can return
VideoResults == {"Success", "ErrorVideoCore"}

\* System::Load: the switch statements over a failed loader result
LoaderError(result, other) ==
    CASE result = "ErrorEncrypted"     -> "ErrorLoader_ErrorEncrypted"
      [] result = "ErrorInvalidFormat" -> "ErrorLoader_ErrorInvalidFormat"
      [] OTHER                         -> other

\* (mutant) Load returns a loader error without shutting the system down
Load_NoShutdown(got_loader, mode_result, init_result, load_result) ==
    IF ~got_loader
    THEN [ret |-> "ErrorGetLoader", init |-> FALSE, shutdown |-> FALSE]
    ELSE IF mode_result # "Success"
    THEN [ret |-> LoaderError(mode_result, "ErrorSystemMode"),
          init |-> FALSE, shutdown |-> FALSE]
    ELSE IF init_result # "Success"
    THEN [ret |-> init_result, init |-> TRUE, shutdown |-> TRUE]
    ELSE IF load_result # "Success"
    THEN [ret |-> LoaderError(load_result, "ErrorLoader"),
          init |-> TRUE, shutdown |-> FALSE]
    ELSE [ret |-> "Success", init |-> TRUE, shutdown |-> FALSE]

\* System::Load: the status returned, whether Init was called, and whether
\* Shutdown was called after it
Load(got_loader, mode_result, init_result, load_result) ==
    IF ~got_loader
    THEN [ret |-> "ErrorGetLoader", init |-> FALSE, shutdown |-> FALSE]
    ELSE IF mode_result # "Success"
    THEN [ret |-> LoaderError(mode_result, "ErrorSystemMode"),
          init |-> FALSE, shutdown |-> FALSE]
    ELSE IF init_result # "Success"
    THEN [ret |-> init_result, init |-> TRUE, shutdown |-> TRUE]
    ELSE IF load_result # "Success"
    THEN [ret |-> LoaderError(load_result, "ErrorLoader"),
          init |-> TRUE, shutdown |-> TRUE]
    ELSE [ret |-> "Success", init |-> TRUE, shutdown |-> FALSE]

\* history record of a call that returned
Returns(name, ret) ==
    [op |-> name, ret |-> ret, got_loader |-> TRUE, mode_result |-> "Success",
     init_result |-> "Success", load_result |-> "Success"]

\* System::Init: the subsystems in the order they are set up; a failing
\* VideoCore::Init is the last step
InitOrder ==
    <<"CoreTiming", "kernel", "cpu_core", "dsp_core", "rpc_server", "service_manager",
      "shared_page_handler", "archive_manager", "HW", "Service", "CheatCore",
      "VideoCore">>

\* System::Shutdown: the subsystems in the order they are shut down
ShutdownOrder ==
    <<"CheatCore", "VideoCore", "kernel", "HW", "rpc_server", "service_manager",
      "dsp_core", "cpu_core", "CoreTiming", "app_loader">>

\* the event queue after one step of Shutdown: CheatCore::Shutdown unschedules
\* the cheat tick, CoreTiming::Shutdown clears the queue, the others leave it
QueueAfter(q, step) ==
    CASE step = "CheatCore"  -> CheatCore_Shutdown(q)
      [] step = "CoreTiming" -> <<>>
      [] OTHER               -> q

RECURSIVE ShutdownSteps(_, _)
\* history: each step of Shutdown with the event types pending when it begins
ShutdownSteps(q, i) ==
    IF i > Len(ShutdownOrder) THEN <<>>
    ELSE <<[step |-> ShutdownOrder[i],
            pending |-> {q[k].type : k \in 1..Len(q)}]>>
         \o ShutdownSteps(QueueAfter(q, ShutdownOrder[i]), i + 1)

\* Init: the queue after the Shared Page and the cheat core have been set up
InitQueue ==
    CheatCore_Init(ScheduleEvent(<<>>, 0, update_time_event, 0, 0, 1), 0, 2)

RECURSIVE QueueAfterSteps(_, _)
QueueAfterSteps(q, i) ==
    IF i > Len(ShutdownOrder) THEN q
    ELSE QueueAfterSteps(QueueAfter(q, ShutdownOrder[i]), i + 1)

\* the event queue Shutdown leaves
ShutdownQueue(q) == QueueAfterSteps(q, 1)

\* the application paths: "" is the empty path
Paths == {"", "a", "b"}

\* the path of the application the user boots first
FirstPath == "a"

\* the RPC thread is not inside System::SetApplication
AppIdle == [at |-> "idle", path |-> ""]

\* the filepath argument of System::Load: BootApplication(filename) passes the
\* path OnCoreError read, the user's first boot passes the chosen file
LoadPath == IF ui_pc = "boot" THEN target ELSE FirstPath

SystemInit ==
    /\ cpu_core = FALSE
    /\ running = FALSE
    /\ shutdown_requested = FALSE
    /\ status = "Success"
    /\ output_allowed = TRUE
    /\ m_pc = "out"
    /\ c_pc = "out"
    /\ work = <<>>
    /\ woke_paused = FALSE
    /\ flag_at_entry = FALSE
    /\ sys_last = Returns("none", "Success")
    /\ init_trace = <<>>
    /\ shutdown_trace = <<>>
    /\ set_application_file_path = ""
    /\ m_filepath = ""
    /\ app_pc = AppIdle
    /\ ui_pc = "idle"
    /\ requested = ""
    /\ target = ""
    /\ request_queue = <<>>
    /\ replies = <<>>
    /\ written = {}
    /\ pad_state = 0

\* the process and the main thread the loader creates
LoadedObjects == Threads \cup Processes

\* System::Load(frontend, filepath) on a system that is not powered on, called
\* before the machine thread is started; the inputs are what the loader and
\* VideoCore::Init report
DoLoad(got_loader, mode_result, init_result, load_result) ==
    LET r  == Load(got_loader, mode_result, init_result, load_result)
        up == r.init /\ ~r.shutdown
    IN  /\ ~cpu_core
        /\ m_pc = "out"
        /\ cpu_core' = up
        \* Init: shutdown_requested = false; SetRunning(true) on success
        /\ shutdown_requested' = IF r.init THEN FALSE ELSE shutdown_requested
        /\ running' = IF r.init /\ init_result = "Success" THEN TRUE ELSE running
        /\ status' = IF r.ret = "Success" THEN "Success" ELSE status
        \* Init: CoreTiming::Init, CheatCore::Init; Shutdown: CheatCore::Shutdown,
        \* CoreTiming::Shutdown
        /\ IF r.init
           THEN /\ current_tick' = 0
                /\ event_queue' = IF up THEN InitQueue ELSE <<>>
                /\ cheat_active' = up
                /\ fired' = <<>>
                /\ last_op' = NoOp
                /\ armed' = None
                \* SharedPage: memset(&shared_page, 0, sizeof(shared_page))
                /\ date_time_counter' = 0
                /\ date_time_0' = ZeroSlot
                /\ date_time_1' = ZeroSlot
                /\ wifi_macaddr' = ZeroMac
                \* SharedPage: init_time = GetInitTime()
                /\ init_time' = GetInitTime(init_input)
                /\ console_time' = 0
                /\ init_trace' = InitOrder
                /\ shutdown_trace' = IF r.shutdown THEN ShutdownSteps(InitQueue, 1)
                                     ELSE <<>>
                \* Cpu::Cpu: UserCallbacks::SyncSettings, PageTableChanged
                /\ custom_ticks' =
                      SyncSettingsResult(settings.ticks_mode, settings.ticks, title)[1]
                /\ use_custom_ticks' =
                      SyncSettingsResult(settings.ticks_mode, settings.ticks, title)[2]
                /\ IF up THEN CpuUp(TRUE) ELSE CpuDown
                /\ mem_page_table' = IF up THEN ProcessTable ELSE mem_page_table
                /\ foreign' = {}
           ELSE UNCHANGED <<current_tick, event_queue, cheat_active, fired, last_op,
                            armed, date_time_counter, date_time_0, date_time_1,
                            wifi_macaddr, init_time, console_time, trace_vars,
                            use_custom_ticks, custom_ticks,
                            jit_vars, reg_vars, unflushed, foreign>>
        \* app_loader->Load(process); kernel->SetCurrentProcess(process)
        /\ IF up
           THEN /\ born' = born \cup LoadedObjects
                /\ destroyed' = destroyed \ LoadedObjects
                /\ held' = [o \in Obj |-> held[o] \/ o \in Threads]
                /\ current_process' = CHOOSE p \in Processes : TRUE
           ELSE UNCHANGED <<born, destroyed, held, current_process>>
        /\ work' = <<>>
        /\ sys_last' = [op |-> "Load", ret |-> r.ret, got_loader |-> got_loader,
                        mode_result |-> mode_result, init_result |-> init_result,
                        load_result |-> load_result]
        \* m_filepath = filepath, on the successful path only
        /\ m_filepath' = IF r.ret = "Success" THEN LoadPath ELSE m_filepath
        /\ UNCHANGED <<tick_vars, app_vars, rpc_vars, cheats_list, rpc_pc>>
        /\ UNCHANGED <<objects, handle_counter, current_thread, ht_last, batch,
                       exhausted, stale>>
        /\ UNCHANGED <<output_allowed, m_pc, c_pc, woke_paused, flag_at_entry>>
        /\ UNCHANGED <<w_pc, r_pc, r_counter, r_got, r_overlap, init_input>>

\* System::Shutdown(), called after the machine thread has left RunLoop
DoShutdown ==
    /\ cpu_core
    /\ m_pc = "out"
    /\ cpu_core' = FALSE
    \* CheatCore::Shutdown, CoreTiming::Shutdown
    /\ event_queue' = ShutdownQueue(event_queue)
    /\ shutdown_trace' = ShutdownSteps(event_queue, 1)
    /\ cheat_active' = FALSE
    /\ fired' = <<>>
    /\ last_op' = NoOp
    /\ armed' = None
    \* kernel.reset(): the kernel teardown clears the handle table
    /\ current_thread' = NULL
    /\ current_process' = NULL
    /\ held' = [o \in Obj |-> FALSE]
    /\ objects' = Clear(objects)
    /\ batch' = <<>>
    /\ stale' = stale \cup DOMAIN objects
    /\ destroyed' = destroyed \cup
          Released(Obj, objects', held', current_thread', current_process')
    /\ work' = <<>>
    /\ sys_last' = Returns("Shutdown", "Success")
    /\ UNCHANGED <<current_tick, use_custom_ticks, custom_ticks>>
    /\ UNCHANGED <<handle_counter, born, ht_last, exhausted>>
    /\ UNCHANGED <<running, shutdown_requested, status, output_allowed, m_pc, c_pc,
                   woke_paused, flag_at_entry>>
    \* rpc_server.reset() joins the RPC thread; cpu_core.reset()
    /\ rpc_pc = RpcIdle
    /\ CpuDown
    /\ UNCHANGED <<init_trace, tick_vars, app_vars, rpc_vars, m_filepath,
                   mem_page_table, cheats_list, rpc_pc,
                   foreign>>
    /\ UNCHANGED page_vars

\* RunLoop, first part: status = Success; the cpu_core check; running.load()
RunLoopEnter ==
    /\ m_pc = "out"
    /\ status' = "Success"
    /\ work' = <<>>
    /\ woke_paused' = FALSE
    /\ flag_at_entry' = shutdown_requested
    /\ IF ~cpu_core
       THEN /\ m_pc' = "out"
            /\ sys_last' = Returns("RunLoop", "ErrorNotInitialized")
       ELSE /\ m_pc' = IF ~running THEN "locking" ELSE "body"
            /\ UNCHANGED sys_last
    /\ UNCHANGED <<cpu_core, running, shutdown_requested, output_allowed, c_pc>>
    /\ UNCHANGED <<clock_vars, table_vars, page_vars, trace_vars, cpu_vars>>

\* RunLoop: std::unique_lock lock{running_mutex}; running_cv.wait(lock) begins
WaitBegin ==
    /\ m_pc = "locking"
    /\ m_pc' = "waiting"
    /\ UNCHANGED <<cpu_core, running, shutdown_requested, status, output_allowed,
                   c_pc, work, woke_paused, flag_at_entry, sys_last>>
    /\ UNCHANGED <<clock_vars, table_vars, page_vars, trace_vars, cpu_vars>>

\* std::condition_variable::wait may return without a notification
SpuriousWakeup ==
    /\ m_pc = "waiting"
    /\ m_pc' = "woken"
    /\ UNCHANGED <<cpu_core, running, shutdown_requested, status, output_allowed,
                   c_pc, work, woke_paused, flag_at_entry, sys_last>>
    /\ UNCHANGED <<clock_vars, table_vars, page_vars, trace_vars, cpu_vars>>

\* RunLoop: wait returns with the mutex held, the lock goes out of scope and
\* the iteration goes on; the running flag is not read again
WaitReturn ==
    /\ m_pc = "woken"
    /\ m_pc' = "body"
    /\ woke_paused' = ~running
    /\ UNCHANGED <<cpu_core, running, shutdown_requested, status, output_allowed,
                   c_pc, work, flag_at_entry, sys_last>>
    /\ UNCHANGED <<clock_vars, table_vars, page_vars, trace_vars, cpu_vars>>

\* the threads Kernel::Reschedule() can switch to
Runnable == {NULL} \cup (Threads \cap Alive)

\* the ticks Idle() can set the clock to
IdleTicks(q, now) == IF q = <<>> THEN now..MaxTick ELSE {IdleTick(q, now)}

\* RunLoop with audio output disallowed: SwapBuffers, sleep, return Success
WorkBlackScreen ==
    /\ m_pc = "body"
    /\ ~output_allowed
    /\ m_pc' = "out"
    /\ sys_last' = Returns("RunLoop", "Success")
    /\ UNCHANGED <<cpu_core, running, shutdown_requested, status, output_allowed,
                   c_pc, work, woke_paused, flag_at_entry>>
    /\ UNCHANGED <<clock_vars, table_vars, page_vars, trace_vars, cpu_vars>>

\* RunLoop with no current thread: Idle(); Advance(); PrepareReschedule(); then
\* HW::Update(); Reschedule(), which switches to next_thread
WorkIdle(next_thread) ==
    /\ m_pc = "body"
    /\ output_allowed
    /\ current_thread = NULL
    /\ next_thread \in Runnable
    /\ \E t \in IdleTicks(event_queue, current_tick) :
          LET r == AdvanceLoop(event_queue, t, <<>>)
          IN  /\ t <= MaxTick
              /\ current_tick' = t
              /\ event_queue' = Renumber(r.queue)
              /\ fired' = r.fired
              /\ PageAfter(r.fired)
              /\ unflushed' = CacheAfter(r.fired, cheats_list, unflushed)
    /\ last_op' = Op("RunLoop", "", 0, 0)
    /\ armed' = None
    /\ current_thread' = next_thread
    /\ work' = <<"Idle", "Advance", "PrepareReschedule", "Reschedule">>
    /\ m_pc' = "finish"
    /\ UNCHANGED <<use_custom_ticks, custom_ticks, cheat_active>>
    /\ UNCHANGED <<objects, handle_counter, current_process, held, born, destroyed,
                   ht_last, batch, exhausted, stale>>
    /\ UNCHANGED <<cpu_core, running, shutdown_requested, status, output_allowed,
                   c_pc, woke_paused, flag_at_entry, sys_last>>
    /\ UNCHANGED <<tick_vars, app_vars, rpc_vars, m_filepath,
                   jit_vars, reg_vars, cheats_list, rpc_pc, foreign>>
    /\ UNCHANGED trace_vars

\* RunLoop with a current thread: Advance(); cpu_core->Run(), a burst of `ticks`
\* cycles in which the guest may request a shutdown or title switch (APT, NS)
\* and a reschedule; then HW::Update(); Reschedule()
WorkRun(ticks, request, pending, next_thread) ==
    LET r == AdvanceLoop(event_queue, current_tick, <<>>)
        n == EffectiveTicks(use_custom_ticks, custom_ticks, ticks)
    IN  /\ m_pc = "body"
        /\ output_allowed
        /\ current_thread # NULL
        /\ next_thread \in Runnable
        /\ current_tick + n <= MaxTick
        /\ event_queue' = Renumber(r.queue)
        /\ fired' = r.fired
        /\ current_tick' = current_tick + n
        /\ last_op' = Op("RunLoop", "", 0, ticks)
        /\ armed' = None
        /\ shutdown_requested' = (shutdown_requested \/ request)
        /\ current_thread' = IF pending THEN next_thread ELSE current_thread
        /\ work' = IF pending THEN <<"Advance", "Run", "Reschedule">>
                   ELSE <<"Advance", "Run">>
        /\ m_pc' = "finish"
        /\ UNCHANGED <<use_custom_ticks, custom_ticks, cheat_active>>
        /\ UNCHANGED <<objects, handle_counter, current_process, held, born,
                       destroyed, ht_last, batch, exhausted, stale>>
        /\ UNCHANGED <<cpu_core, running, status, output_allowed, c_pc, woke_paused,
                       flag_at_entry, sys_last>>
        /\ PageAfter(r.fired)
        /\ unflushed' = CacheAfter(r.fired, cheats_list, unflushed)
        /\ ran_with' = RunRecord(unflushed')
        /\ UNCHANGED <<mem_page_table, current_page_table, jits, jit, jit_made>>
        /\ UNCHANGED <<tick_vars, app_vars, rpc_vars, m_filepath,
                       reg_vars, cheats_list, rpc_pc, foreign>>
        /\ UNCHANGED trace_vars

\* RunLoop with a current thread, step by step: Advance(), then cpu_core->Run()
\* is entered
BurstBegin ==
    LET r == AdvanceLoop(event_queue, current_tick, <<>>)
    IN  /\ m_pc = "body"
        /\ output_allowed
        /\ current_thread # NULL
        /\ event_queue' = Renumber(r.queue)
        /\ fired' = r.fired
        /\ last_op' = Op("Advance", "", 0, 0)
        /\ armed' = None
        /\ work' = <<"Advance", "Run">>
        /\ m_pc' = "run"
        /\ PageAfter(r.fired)
        /\ unflushed' = CacheAfter(r.fired, cheats_list, unflushed)
        /\ ran_with' = RunRecord(unflushed')
        /\ UNCHANGED <<current_tick, use_custom_ticks, custom_ticks, cheat_active>>
        /\ UNCHANGED <<mem_page_table, current_page_table, jits, jit, jit_made>>
        /\ UNCHANGED <<tick_vars, app_vars, rpc_vars, m_filepath,
                       reg_vars, cheats_list, rpc_pc, foreign>>
        /\ UNCHANGED <<cpu_core, running, shutdown_requested, status, output_allowed,
                       c_pc, woke_paused, flag_at_entry, sys_last>>
        /\ UNCHANGED <<table_vars, trace_vars>>

\* Run(): with ticks remaining, the Jit executes one more block of `ticks`
\* cycles and reports it through UserCallbacks::AddTicks
BurstBlock(ticks) ==
    LET n == EffectiveTicks(use_custom_ticks, custom_ticks, ticks)
    IN  /\ m_pc = "run"
        /\ GetTicksRemaining(event_queue, current_tick) > 0
        /\ current_tick + n <= MaxTick
        /\ current_tick' = current_tick + n
        /\ fired' = <<>>
        /\ last_op' = Op("AddTicks", "", 0, ticks)
        /\ armed' = IF n = 0 THEN armed ELSE None
        /\ UNCHANGED <<event_queue, use_custom_ticks, custom_ticks, cheat_active>>
        /\ UNCHANGED outside_clock

\* Run() returns with no ticks remaining; HW::Update(); Reschedule() with no
\* reschedule pending
BurstEnd ==
    /\ m_pc = "run"
    /\ GetTicksRemaining(event_queue, current_tick) = 0
    /\ m_pc' = "finish"
    /\ UNCHANGED <<cpu_core, running, shutdown_requested, status, output_allowed,
                   c_pc, work, woke_paused, flag_at_entry, sys_last>>
    /\ UNCHANGED <<clock_vars, table_vars, page_vars, trace_vars, cpu_vars>>

\* a system call of the running block schedules an event
SvcSchedule(type, delay, userdata) ==
    /\ m_pc = "run"
    /\ DoScheduleEvent(type, delay, userdata)

\* RunLoop, last part: if (shutdown_requested.exchange(false)) return
\* ShutdownRequested; return status
RunLoopFinish ==
    /\ m_pc = "finish"
    /\ m_pc' = "out"
    /\ shutdown_requested' = FALSE
    /\ sys_last' = Returns("RunLoop", IF shutdown_requested THEN "ShutdownRequested"
                                      ELSE status)
    /\ UNCHANGED <<cpu_core, running, status, output_allowed, c_pc, work,
                   woke_paused, flag_at_entry>>
    /\ UNCHANGED <<clock_vars, table_vars, page_vars, trace_vars, cpu_vars>>

\* SetRunning(value), first part: running.store(value)
SetRunningStore(value) ==
    /\ c_pc = "out"
    /\ running' = value
    /\ c_pc' = IF value THEN "notify" ELSE "out"
    /\ UNCHANGED <<cpu_core, shutdown_requested, status, output_allowed, m_pc, work,
                   woke_paused, flag_at_entry, sys_last>>
    /\ UNCHANGED <<clock_vars, table_vars, page_vars, trace_vars, cpu_vars>>

\* SetRunning(true), second part: running_cv.notify_one() under running_mutex
SetRunningNotify ==
    /\ c_pc = "notify"
    /\ c_pc' = "out"
    /\ m_pc' = IF m_pc = "waiting" THEN "woken" ELSE m_pc
    /\ UNCHANGED <<cpu_core, running, shutdown_requested, status, output_allowed,
                   work, woke_paused, flag_at_entry, sys_last>>
    /\ UNCHANGED <<clock_vars, table_vars, page_vars, trace_vars, cpu_vars>>

\* RequestShutdown(), SetApplication(path), Restart(), CloseApplication() from a
\* thread other than the machine thread
RequestShutdown ==
    /\ shutdown_requested' = TRUE
    /\ UNCHANGED <<cpu_core, running, status, output_allowed, m_pc, c_pc, work,
                   woke_paused, flag_at_entry, sys_last>>
    /\ UNCHANGED <<clock_vars, table_vars, page_vars, trace_vars, cpu_vars>>

\* the DSP starts or stops allowing output (sleep mode)
SetOutputAllowed(value) ==
    /\ cpu_core
    /\ output_allowed # value
    /\ output_allowed' = value
    /\ UNCHANGED <<cpu_core, running, shutdown_requested, status, m_pc, c_pc, work,
                   woke_paused, flag_at_entry, sys_last>>
    /\ UNCHANGED <<clock_vars, table_vars, page_vars, trace_vars, cpu_vars>>

\* history: a call into `callee` by a thread other than the machine thread is
\* recorded when the machine thread is inside RunLoop
Foreign(callee) == IF m_pc # "out" THEN foreign \cup {callee} ELSE foreign

\* the frontend writes Settings::values.ticks_mode and .ticks and, with the
\* system powered on, calls system.CPU().SyncSettings()
WriteTickSettings(mode, ticks) ==
    /\ settings' = [ticks_mode |-> mode, ticks |-> ticks]
    /\ IF cpu_core
       THEN /\ custom_ticks' = SyncSettingsResult(mode, ticks, title)[1]
            /\ use_custom_ticks' = SyncSettingsResult(mode, ticks, title)[2]
            /\ foreign' = Foreign("Cpu::SyncSettings")
       ELSE UNCHANGED <<custom_ticks, use_custom_ticks, foreign>>
    /\ fired' = <<>>
    /\ last_op' = Op("SyncSettings", "", 0, 0)
    /\ UNCHANGED <<current_tick, event_queue, cheat_active, armed>>
    /\ UNCHANGED <<title, app_vars, rpc_vars, m_filepath, jit_vars, reg_vars, cheats_list,
                   unflushed, rpc_pc>>
    /\ UNCHANGED <<table_vars, page_vars, sys_vars, trace_vars>>

\* ConfigurationHacks::ApplyConfiguration, on the UI thread
ApplyConfiguration(mode, ticks) == WriteTickSettings(mode, ticks)

\* the "Change CPU Ticks" hotkey, on the UI thread, with a number entered
HotkeyChangeTicks(ticks) == WriteTickSettings("Custom", ticks)

\* the user picks the file to boot: the program id the loader will read
ChooseTitle(program_id) ==
    /\ ~cpu_core
    /\ title' = program_id
    /\ UNCHANGED <<settings, app_vars, rpc_vars, m_filepath, jit_vars, reg_vars, cache_vars>>
    /\ UNCHANGED <<clock_vars, table_vars, page_vars, sys_vars, trace_vars>>

\* the tick override against the settings and the title
NextTicks ==
    \/ \E p \in ProgramIds : ChooseTitle(p)
    \/ \E g \in BOOLEAN, m \in LoaderResults, v \in VideoResults, l \in LoaderResults :
          DoLoad(g, m, v, l)
    \/ DoShutdown
    \/ \E m \in TicksModes, t \in SettingsTicks : ApplyConfiguration(m, t)
    \/ \E t \in SettingsTicks : HotkeyChangeTicks(t)
    \/ \E ticks \in BlockCycles : AddTicks(ticks)

\* a setter of a register the active Jit holds
SetJitPart(part, value) ==
    /\ cpu_core
    /\ jit_state' = [jit_state EXCEPT ![jit] = [@ EXCEPT ![part] = value]]
    /\ at_save' = [at_save EXCEPT !.valid = FALSE]
    /\ UNCHANGED <<vfp, cp15, saved>>
    /\ UNCHANGED <<clock_vars, table_vars, page_vars, sys_vars, trace_vars,
                   tick_vars, app_vars, rpc_vars, m_filepath, jit_vars, cache_vars>>

\* Cpu::SetReg and Cpu::SetPC
SetReg(value) == SetJitPart("Regs", value)

\* Cpu::SetVFPReg
SetVFPReg(value) == SetJitPart("ExtRegs", value)

\* Cpu::SetCPSR
SetCPSR(value) == SetJitPart("Cpsr", value)

\* Cpu::SetVFPSystemReg: VFP_FPSCR goes to the Jit (its copy in state.vfp is
\* never read back), the other registers live in state.vfp only
SetVFPSystemReg(reg, value) ==
    IF reg = "VFP_FPSCR" THEN SetJitPart("Fpscr", value)
    ELSE /\ cpu_core
         /\ vfp' = [vfp EXCEPT ![reg] = value]
         /\ at_save' = [at_save EXCEPT !.valid = FALSE]
         /\ UNCHANGED <<jit_state, cp15, saved>>
         /\ UNCHANGED <<clock_vars, table_vars, page_vars, sys_vars, trace_vars,
                        tick_vars, app_vars, rpc_vars, m_filepath, jit_vars, cache_vars>>

\* Cpu::SetCP15Register
SetCP15Register(value) ==
    /\ cpu_core
    /\ cp15' = value
    /\ at_save' = [at_save EXCEPT !.valid = FALSE]
    /\ UNCHANGED <<jit_state, vfp, saved>>
    /\ UNCHANGED <<clock_vars, table_vars, page_vars, sys_vars, trace_vars,
                   tick_vars, app_vars, rpc_vars, m_filepath, jit_vars, cache_vars>>

\* (mutant) SaveContext without the line that stores state.vfp[VFP_FPEXC]
Saved_NoFpexc(state, v) == [valid |-> TRUE, ctx |-> state, fpexc |-> 0]

\* the ThreadContext SaveContext fills: jit->SaveContext(*ctx->ctx);
\* ctx->fpexc = state.vfp[VFP_FPEXC]
Saved(state, v) == [valid |-> TRUE, ctx |-> state, fpexc |-> v["VFP_FPEXC"]]

\* Cpu::SaveContext
SaveContext ==
    /\ cpu_core
    /\ saved' = Saved(jit_state[jit], vfp)
    /\ at_save' = [valid |-> FALSE, jit_state |-> jit_state[jit], vfp |-> vfp,
                   cp15 |-> cp15]
    /\ UNCHANGED <<jit_state, vfp, cp15>>
    /\ UNCHANGED <<clock_vars, table_vars, page_vars, sys_vars, trace_vars,
                   tick_vars, app_vars, rpc_vars, m_filepath, jit_vars, cache_vars>>

\* Cpu::LoadContext: jit->LoadContext(*ctx->ctx);
\* state.vfp[VFP_FPEXC] = ctx->fpexc
LoadContext ==
    /\ cpu_core
    /\ saved.valid
    /\ jit_state' = [jit_state EXCEPT ![jit] = saved.ctx]
    /\ vfp' = [vfp EXCEPT !["VFP_FPEXC"] = saved.fpexc]
    /\ at_save' = [at_save EXCEPT !.valid = TRUE]
    /\ UNCHANGED <<cp15, saved>>
    /\ UNCHANGED <<clock_vars, table_vars, page_vars, sys_vars, trace_vars,
                   tick_vars, app_vars, rpc_vars, m_filepath, jit_vars, cache_vars>>

\* the registers of the CPU against the context switches of the kernel
NextContext ==
    \/ \E g \in BOOLEAN, m \in LoaderResults, v \in VideoResults, l \in LoaderResults :
          DoLoad(g, m, v, l)
    \/ \E value \in RegValues : SetReg(value)
    \/ \E value \in RegValues : SetVFPReg(value)
    \/ \E value \in RegValues : SetCPSR(value)
    \/ \E reg \in VfpRegs \cup {"VFP_FPSCR"}, value \in RegValues :
          SetVFPSystemReg(reg, value)
    \/ \E value \in RegValues : SetCP15Register(value)
    \/ SaveContext
    \/ LoadContext

\* the translation caches against the page table switches of the kernel
NextJit ==
    \/ \E g \in BOOLEAN, m \in LoaderResults, v \in VideoResults, l \in LoaderResults :
          DoLoad(g, m, v, l)
    \/ DoShutdown
    \/ \E table \in PageTables : SetCurrentPageTable(table)
    \/ CpuRun

\* the data sizes of an RPC write request, scaled down
RpcSizes == {1, 2}
\* the cheat files the frontend can have saved: no enabled cheat, or one line
CheatFiles == {<<>>} \cup {<<line>> : line \in CheatLines}

\* CheatCore::RefreshCheats, from the cheat dialog: the engine reads the file
RefreshCheats(lines) ==
    /\ cheats_list' = lines
    /\ UNCHANGED <<unflushed, rpc_pc, foreign>>
    /\ UNCHANGED <<clock_vars, table_vars, page_vars, sys_vars, trace_vars,
                   tick_vars, app_vars, rpc_vars, m_filepath, jit_vars, reg_vars>>

\* RPCServer::HandleWriteMemory on the RPC thread, first part:
\* Memory::WriteBlock(address, data, data_size)
RpcWriteBlock(address, data_size) ==
    /\ cpu_core
    /\ rpc_pc = RpcIdle
    /\ unflushed' = unflushed \cup ByteRange(address, data_size)
    /\ rpc_pc' = [at |-> "written", bytes |-> ByteRange(address, data_size)]
    /\ UNCHANGED <<cheats_list, foreign>>
    /\ UNCHANGED <<clock_vars, table_vars, page_vars, sys_vars, trace_vars,
                   tick_vars, app_vars, rpc_vars, m_filepath, jit_vars, reg_vars>>

\* RPCServer::HandleWriteMemory, second part:
\* system.CPU().InvalidateCacheRange(address, data_size); the reply is sent
RpcInvalidate ==
    /\ rpc_pc.at = "written"
    /\ unflushed' = unflushed \ rpc_pc.bytes
    /\ rpc_pc' = RpcIdle
    /\ foreign' = Foreign("Cpu::InvalidateCacheRange")
    /\ UNCHANGED cheats_list
    /\ UNCHANGED <<clock_vars, table_vars, page_vars, sys_vars, trace_vars,
                   tick_vars, app_vars, rpc_vars, m_filepath, jit_vars, reg_vars>>

\* one session of the machine thread: the title boots and RunLoop is called
\* again and again, the guest asking for no shutdown
NextMachine ==
    \/ DoLoad(TRUE, "Success", "Success", "Success")
    \/ RunLoopEnter
    \/ \E t \in Threads \cup {NULL} : WorkIdle(t)
    \/ \E ticks \in BlockCycles, pend \in BOOLEAN, t \in Threads \cup {NULL} :
          WorkRun(ticks, FALSE, pend, t)
    \/ RunLoopFinish

\* the machine thread against the cheats the frontend enables
NextCheats ==
    \/ NextMachine
    \/ \E lines \in CheatFiles : RefreshCheats(lines)

\* the machine thread against the UI thread and the RPC thread
NextThreads ==
    \/ NextMachine
    \/ \E a \in Addresses, n \in RpcSizes : RpcWriteBlock(a, n)
    \/ RpcInvalidate
    \/ \E t \in SettingsTicks : HotkeyChangeTicks(t)

NextSystem ==
    \/ \E g \in BOOLEAN, m \in LoaderResults, v \in VideoResults, l \in LoaderResults :
          DoLoad(g, m, v, l)
    \/ DoShutdown
    \/ RunLoopEnter
    \/ WaitBegin
    \/ SpuriousWakeup
    \/ WaitReturn
    \/ WorkBlackScreen
    \/ \E t \in Threads \cup {NULL} : WorkIdle(t)
    \/ \E ticks \in BlockCycles, req \in BOOLEAN, pend \in BOOLEAN,
          t \in Threads \cup {NULL} : WorkRun(ticks, req, pend, t)
    \/ RunLoopFinish
    \/ \E b \in BOOLEAN : SetRunningStore(b)
    \/ SetRunningNotify
    \/ RequestShutdown
    \/ \E b \in BOOLEAN : SetOutputAllowed(b)

\* a guest service creates a handle, or schedules an event, in a session
GuestCreate(o) == cpu_core /\ DoCreate(o)
GuestSchedule(type, delay, userdata) == cpu_core /\ DoScheduleEvent(type, delay, userdata)

\* one session after another: Load, idle RunLoop iterations, a guest service
\* that creates handles and schedules events, pause and resume, Shutdown
NextSession ==
    \/ \E v \in VideoResults : DoLoad(TRUE, "Success", v, "Success")
    \/ DoShutdown
    \/ RunLoopEnter
    \/ WaitBegin
    \/ WaitReturn
    \/ WorkIdle(NULL)
    \/ RunLoopFinish
    \/ \E b \in BOOLEAN : SetRunningStore(b)
    \/ SetRunningNotify
    \/ RequestShutdown
    \/ \E o \in Threads : GuestCreate(o)
    \/ \E type \in GenericTypes : GuestSchedule(type, MaxDelay, 0)

\* the "Change CPU Ticks" hotkey pressed between two RunLoop calls; the input
\* dialog accepts 0 and every positive number
HotkeyAtRest(ticks) == m_pc = "out" /\ HotkeyChangeTicks(ticks)

\* the bursts of the execution unit, block by block, under a tick override
NextBurst ==
    \/ \E ticks \in 0..MaxTick : HotkeyAtRest(ticks)
    \/ DoLoad(TRUE, "Success", "Success", "Success")
    \/ RunLoopEnter
    \/ \E t \in Threads \cup {NULL} : WorkIdle(t)
    \/ BurstBegin
    \/ \E ticks \in BlockCycles : BurstBlock(ticks)
    \/ \E type \in GenericTypes : SvcSchedule(type, 0, 0)
    \/ BurstEnd
    \/ RunLoopFinish

\* System::SetApplication(path) called by a guest service inside Run(), on the
\* machine thread: shutdown_requested = true; set_application_file_path = path
GuestSetApplication(path) ==
    /\ m_pc = "run"
    /\ shutdown_requested' = TRUE
    /\ set_application_file_path' = path
    /\ requested' = path
    /\ UNCHANGED <<app_pc, ui_pc, target>>
    /\ UNCHANGED <<cpu_core, running, status, output_allowed, m_pc, c_pc, work,
                   woke_paused, flag_at_entry, sys_last>>
    /\ UNCHANGED <<clock_vars, table_vars, page_vars, trace_vars, tick_vars,
                   m_filepath, rpc_vars, jit_vars, reg_vars, cache_vars>>

\* RPCServer::HandleSetApplication on the RPC thread, first statement of
\* System::SetApplication(path): shutdown_requested = true
RpcSetApplicationFlag(path) ==
    /\ cpu_core
    /\ rpc_pc = RpcIdle
    /\ app_pc = AppIdle
    /\ shutdown_requested' = TRUE
    /\ app_pc' = [at |-> "flagged", path |-> path]
    /\ UNCHANGED <<set_application_file_path, ui_pc, requested, target>>
    /\ UNCHANGED <<cpu_core, running, status, output_allowed, m_pc, c_pc, work,
                   woke_paused, flag_at_entry, sys_last>>
    /\ UNCHANGED <<clock_vars, table_vars, page_vars, trace_vars, tick_vars,
                   m_filepath, rpc_vars, jit_vars, reg_vars, cache_vars>>

\* RPCServer::HandleRestart on the RPC thread: System::Restart() is
\* SetApplication(m_filepath)
RpcRestartFlag == RpcSetApplicationFlag(m_filepath)

\* second statement of System::SetApplication on the RPC thread:
\* set_application_file_path = path; the request is made
RpcStorePath ==
    /\ app_pc.at = "flagged"
    /\ set_application_file_path' = app_pc.path
    /\ requested' = app_pc.path
    /\ app_pc' = AppIdle
    /\ UNCHANGED <<ui_pc, target>>
    /\ UNCHANGED <<sys_vars, clock_vars, table_vars, page_vars, trace_vars,
                   tick_vars, m_filepath, rpc_vars, jit_vars, reg_vars, cache_vars>>

\* RunLoop returned ShutdownRequested to the machine thread, which reports it
RunLoopReported == sys_last = Returns("RunLoop", "ShutdownRequested")

\* the machine thread calls RunLoop again: it is started by BootApplication
\* and stops calling once a RunLoop call reported ShutdownRequested
EmuRunLoopEnter ==
    /\ cpu_core
    /\ ui_pc # "stopping"
    /\ ~RunLoopReported
    /\ RunLoopEnter

\* GMainWindow::OnCoreError(ShutdownRequested) on the UI thread, with emu_thread
\* set: ShutdownApplication() is entered
OnCoreErrorBegin ==
    /\ ui_pc = "idle"
    /\ cpu_core
    /\ m_pc = "out"
    /\ RunLoopReported
    /\ ui_pc' = "stopping"
    /\ UNCHANGED <<set_application_file_path, app_pc, requested, target>>
    /\ UNCHANGED <<sys_vars, clock_vars, table_vars, page_vars, trace_vars,
                   tick_vars, m_filepath, rpc_vars, jit_vars, reg_vars, cache_vars>>

\* ShutdownApplication(): emu_thread->RequestStop(), emu_thread->wait(); the
\* machine thread shuts the system down as it ends, which joins the RPC thread
EmuThreadExit ==
    /\ ui_pc = "stopping"
    /\ app_pc = AppIdle
    /\ DoShutdown

\* OnCoreError after ShutdownApplication(): the target path is read,
\* if (!system.set_application_file_path.empty()) BootApplication(...)
OnCoreErrorRead ==
    /\ ui_pc = "stopping"
    /\ ~cpu_core
    /\ target' = set_application_file_path
    /\ ui_pc' = IF set_application_file_path = "" THEN "idle" ELSE "boot"
    /\ UNCHANGED <<set_application_file_path, app_pc, requested>>
    /\ UNCHANGED <<sys_vars, clock_vars, table_vars, page_vars, trace_vars,
                   tick_vars, m_filepath, rpc_vars, jit_vars, reg_vars, cache_vars>>

\* BootApplication(path): LoadROM calls System::Load, then the machine thread
\* is created and started
BootApplication ==
    /\ ui_pc = "boot"
    /\ DoLoad(TRUE, "Success", "Success", "Success")

\* the user boots an application from the menu
UserBoot ==
    /\ ui_pc = "idle"
    /\ DoLoad(TRUE, "Success", "Success", "Success")

\* OnCoreError after BootApplication() returned:
\* system.set_application_file_path.clear()
OnCoreErrorClear ==
    /\ ui_pc = "boot"
    /\ cpu_core
    /\ set_application_file_path' = ""
    /\ ui_pc' = "idle"
    /\ UNCHANGED <<app_pc, requested, target>>
    /\ UNCHANGED <<sys_vars, clock_vars, table_vars, page_vars, trace_vars,
                   tick_vars, m_filepath, rpc_vars, jit_vars, reg_vars, cache_vars>>

\* the application requests: a guest service or the RPC thread asks for another
\* application, a restart or a close; the UI thread shuts down and reboots
NextApp ==
    \/ UserBoot
    \/ EmuRunLoopEnter
    \/ \E t \in Threads : WorkIdle(t)
    \/ BurstBegin
    \/ \E ticks \in BlockCycles : BurstBlock(ticks)
    \/ \E path \in Paths : GuestSetApplication(path)
    \/ BurstEnd
    \/ RunLoopFinish
    \/ \E path \in Paths : RpcSetApplicationFlag(path)
    \/ RpcRestartFlag
    \/ RpcStorePath
    \/ OnCoreErrorBegin
    \/ EmuThreadExit
    \/ OnCoreErrorRead
    \/ BootApplication
    \/ OnCoreErrorClear

\* ------------------------------------------------------------- RPC requests
\* constexpr u32 CURRENT_VERSION
CURRENT_VERSION == 1
\* the largest data_size of a memory request, scaled down
MAX_READ_WRITE_SIZE == 2
\* the packet types ValidatePacket lists, a few standing for the others
KnownTypes == {"ReadMemory", "WriteMemory", "PadState", "SetApplication", "Pause"}
MemoryTypes == {"ReadMemory", "WriteMemory"}

\* the request packets a client can send: the header's version, type and
\* payload size, and the payload's address/data_size words, path and raw word
Packets ==
    {p \in [version : {CURRENT_VERSION, CURRENT_VERSION + 1},
            packet_type : KnownTypes \cup {"Undefined"},
            packet_size : {7, 9},
            address : Addresses,
            data_size : {0, 1, MAX_READ_WRITE_SIZE + 1},
            path : {"b"},
            raw : {1}] :
        p.packet_type \notin MemoryTypes => p.data_size = 1}

\* (mutant) the version of the header is not looked at
ValidatePacket_AnyVersion(packet_header) ==
    /\ packet_header.packet_type \in KnownTypes
    /\ packet_header.packet_size >= 8

\* RPCServer::ValidatePacket
ValidatePacket(packet_header) ==
    /\ packet_header.version <= CURRENT_VERSION
    /\ packet_header.packet_type \in KnownTypes
    /\ packet_header.packet_size >= 8

\* HandleSingleRequest: the switch calls the handler of the packet's type
Dispatched(packet) ==
    /\ ValidatePacket(packet)
    /\ packet.packet_type \in MemoryTypes =>
          packet.data_size > 0 /\ packet.data_size <= MAX_READ_WRITE_SIZE

\* the data size of the reply the handler of the packet's type sends
HandlerReply(packet) ==
    IF packet.packet_type = "ReadMemory" THEN packet.data_size ELSE 0

\* packet.SetPacketDataSize(size); packet.SendReply(): the packet goes back
\* with its data size set
Reply(packet, size) == [packet EXCEPT !.packet_size = size]

\* HandleSingleRequest: the replies sent for one packet, the handler's
\* SendReply() first, then if (!success) the empty reply
SentReplies(packet) ==
    LET success == Dispatched(packet)
    IN  (IF Dispatched(packet) THEN <<Reply(packet, HandlerReply(packet))>> ELSE <<>>)
        \o (IF ~success THEN <<Reply(packet, 0)>> ELSE <<>>)

\* RPCServer::QueueRequest, called by the server's receiving thread
QueueRequest(packet) ==
    /\ cpu_core
    /\ Len(request_queue) < MaxRequests
    /\ request_queue' = Append(request_queue, packet)
    /\ UNCHANGED <<replies, written, pad_state>>
    /\ UNCHANGED <<sys_vars, clock_vars, table_vars, page_vars, trace_vars,
                   tick_vars, app_vars, m_filepath, jit_vars, reg_vars, cache_vars>>

\* HandleRequestsLoop: request_queue.PopWait(), then the whole of
\* HandleSingleRequest for the packet taken
HandleRequest ==
    LET packet == Head(request_queue)
        type   == IF Dispatched(packet) THEN packet.packet_type ELSE "Undefined"
        bytes  == ByteRange(packet.address, packet.data_size)
    IN  /\ cpu_core
        /\ rpc_pc = RpcIdle
        /\ app_pc = AppIdle
        /\ request_queue # <<>>
        /\ request_queue' = Tail(request_queue)
        /\ replies' = SentReplies(packet)
        \* HandleWriteMemory: Memory::WriteBlock, Cpu::InvalidateCacheRange
        /\ written' = IF type = "WriteMemory" THEN written \cup bytes ELSE written
        /\ unflushed' = IF type = "WriteMemory" THEN unflushed \ bytes ELSE unflushed
        /\ foreign' = IF type = "WriteMemory" THEN Foreign("Cpu::InvalidateCacheRange")
                      ELSE foreign
        \* HandlePadState: Service::HID::SetPadState(raw)
        /\ pad_state' = IF type = "PadState" THEN packet.raw ELSE pad_state
        \* HandleSetApplication: System::SetApplication(path)
        /\ shutdown_requested' = IF type = "SetApplication" THEN TRUE
                                 ELSE shutdown_requested
        /\ set_application_file_path' = IF type = "SetApplication" THEN packet.path
                                        ELSE set_application_file_path
        /\ requested' = IF type = "SetApplication" THEN packet.path ELSE requested
        \* HandlePause: System::SetRunning(false)
        /\ running' = IF type = "Pause" THEN FALSE ELSE running
        /\ UNCHANGED <<cpu_core, status, output_allowed, m_pc, c_pc, work, woke_paused,
                       flag_at_entry, sys_last>>
        /\ UNCHANGED <<app_pc, ui_pc, target, cheats_list, rpc_pc>>
        /\ UNCHANGED <<clock_vars, table_vars, page_vars, trace_vars, tick_vars,
                       m_filepath, jit_vars, reg_vars>>

\* System::Shutdown: rpc_server.reset() stops the server and joins the RPC
\* thread, which has taken every packet queued before
ServerStop ==
    /\ request_queue = <<>>
    /\ DoShutdown

\* the RPC thread of one session after another: requests arrive and are taken
\* between Load and Shutdown
NextRpc ==
    \/ DoLoad(TRUE, "Success", "Success", "Success")
    \/ \E packet \in Packets : QueueRequest(packet)
    \/ HandleRequest
    \/ ServerStop

\* a session under some clock setting: Load constructs the shared page, the
\* idle RunLoop iterations fire the hourly refresh
NextTime ==
    \/ DoLoad(TRUE, "Success", "Success", "Success")
    \/ RunLoopEnter
    \/ WorkIdle(NULL)
    \/ RunLoopFinish
    \/ DoShutdown

\* ------------------------------------------------------------ specifications
Init == ClockInit /\ TableInit /\ PageInit /\ HostInit /\ SystemInit /\ CpuInit

\* the virtual clock and its callers
Spec == Init /\ [][Next]_vars

\* the machine before the first Load, the clock at rest in accurate mode
InitMachine ==
    /\ current_tick = 0
    /\ event_queue = <<>>
    /\ custom_ticks = 0
    /\ use_custom_ticks = FALSE
    /\ fired = <<>>
    /\ cheat_active = FALSE
    /\ last_op = NoOp
    /\ armed = None
    /\ TableInit
    /\ PageInit
    /\ SystemInit
    /\ CpuInit

\* the handle table
InitHandle == InitMachine /\ HostInit
SpecHandle == InitHandle /\ [][NextHandle]_vars

\* the refresh of the shared page against a guest reader, clock and table at rest
SpecPage == InitHandle /\ [][NextPage]_vars

\* the system controller: the machine thread against the controlling thread
SpecSystem == InitHandle /\ [][NextSystem]_vars

\* the tick override of the CPU against the frontend's settings
SpecTicks == InitHandle /\ [][NextTicks]_vars

\* the translation caches of the CPU, one session after another
SpecJit == InitHandle /\ [][NextJit]_vars

\* the registers of the CPU under SaveContext and LoadContext
SpecContext == InitHandle /\ [][NextContext]_vars

\* the machine thread in RunLoop against the UI thread and the RPC thread
SpecThreads == InitHandle /\ [][NextThreads]_vars

\* the cheat engine, run by the cheat tick, against the guest's bursts
SpecCheats == InitHandle /\ [][NextCheats]_vars

\* the re-arming events on the clock
SpecRearm == InitHandle /\ [][NextRearm]_vars

\* the sessions of the system, one after another
SpecSession == InitHandle /\ [][NextSession]_vars

\* the bursts of the execution unit under a tick override
SpecBurst == InitHandle /\ [][NextBurst]_vars

\* the application requests and the reboot
SpecApp == InitHandle /\ [][NextApp]_vars

\* the RPC requests
SpecRpc == InitHandle /\ [][NextRpc]_vars

\* the console clock under every clock setting and host clock
InitTime == InitMachine /\ init_input \in InitInputs
SpecTime == InitTime /\ [][NextTime]_vars

\* ======================================================== virtual clock
\* the (type, userdata) pairs of a sequence of entries or fired records
Pairs(s) == {<<s[i].type, s[i].userdata>> : i \in 1..Len(s)}
\* an entry without its history number
Strip(s) == [i \in 1..Len(s) |->
                [type |-> s[i].type, time |-> s[i].time, userdata |-> s[i].userdata]]
\* the earliest due tick of a non-empty queue, whatever its order
EarliestDue(q) == CHOOSE t \in {q[i].time : i \in 1..Len(q)} :
                      \A i \in 1..Len(q) : t <= q[i].time

\* C1: current_tick never decreases in any step (AddTicks, Idle, ScheduleEvent,
\* UnscheduleEvent, Advance), and every callback Advance() invokes fires at the
\* current tick with its due tick <= current_tick.
C1_MonotonicTick ==
    [][ /\ current_tick' >= current_tick
        /\ \A i \in 1..Len(fired') :
              /\ fired'[i].at = current_tick'
              /\ fired'[i].time <= fired'[i].at ]_vars

\* C1 witness: ticks were added and an Advance() then fired a late entry
C1_Witness ==
    /\ last_op.op = "Advance"
    /\ current_tick > 0
    /\ \E i \in 1..Len(fired) : fired[i].time < current_tick

\* C2: the callbacks of one Advance() fire in ascending due-tick order, and
\* entries with the same due tick fire in the order of their ScheduleEvent calls.
C2_FifoOrder ==
    \A i, j \in 1..Len(fired) :
        i < j => \/ fired[i].time < fired[j].time
                 \/ /\ fired[i].time = fired[j].time
                    /\ fired[i].fifo < fired[j].fifo

\* C2 witness: two entries of the same type with the same due tick have fired
C2_Witness ==
    \E i, j \in 1..Len(fired) :
        /\ i < j
        /\ fired[i].time = fired[j].time
        /\ fired[i].type = fired[j].type
        /\ fired[i].type \in GenericTypes

\* C3 (as amended): once ScheduleEvent with delay d >= 0 has made its entry the
\* earliest pending one, GetTicksRemaining() is d until an earlier entry is
\* scheduled, current_tick advances, or that entry leaves the queue (fired by
\* Advance or removed by UnscheduleEvent); and whenever an entry is pending it
\* equals max(0, earliest due tick - current_tick), which is never negative.
C3_Downcount ==
    /\ armed # None =>
          /\ event_queue # <<>>
          /\ GetTicksRemaining(event_queue, current_tick) = armed
    /\ event_queue # <<>> =>
          /\ GetTicksRemaining(event_queue, current_tick) >= 0
          /\ GetTicksRemaining(event_queue, current_tick) =
                Max(0, EarliestDue(event_queue) - current_tick)

\* C3 witness: a positive downcount armed by a ScheduleEvent survived a later,
\* unrelated operation
C3_Witness ==
    /\ armed > 0
    /\ last_op.op \in {"UnscheduleEvent", "Advance", "SyncSettings"}
    /\ Len(event_queue) >= 2

\* C3 as stated: the downcount armed by a ScheduleEvent stays the same in every
\* step that neither schedules an earlier entry nor adds ticks.
C3_Original ==
    [][ ( /\ armed # None
          /\ event_queue' # <<>>
          /\ current_tick' = current_tick
          /\ ~(last_op'.op = "ScheduleEvent"
                 /\ Head(event_queue').fifo = Len(event_queue')) )
        => GetTicksRemaining(event_queue', current_tick') = armed ]_vars

\* C4: Advance() fires every pending entry whose due tick has been reached
\* exactly once, with ticks_late = current_tick - due tick >= 0, fires no entry
\* that is not yet due, and leaves no due entry behind (so that the next
\* Advance() fires none of them again).
C4_FiresOnce ==
    [][ last_op'.op = "Advance" =>
        /\ \A i \in 1..Len(event_queue) :
              LET e  == event_queue[i]
                  ks == {k \in 1..Len(fired') : fired'[k].fifo = e.fifo}
              IN  IF e.time <= current_tick
                  THEN /\ Cardinality(ks) = 1
                       /\ \A k \in ks :
                             /\ fired'[k].type = e.type
                             /\ fired'[k].userdata = e.userdata
                             /\ fired'[k].late = current_tick - e.time
                             /\ fired'[k].late >= 0
                  ELSE /\ ks = {}
                       /\ \E j \in 1..Len(event_queue') :
                             Strip(event_queue')[j] = Strip(event_queue)[i]
        /\ \A j \in 1..Len(event_queue') : event_queue'[j].time > current_tick'
      ]_vars

\* C4 witness: an entry scheduled one tick ahead fired one tick late, after two
\* ticks had been added
C4_Witness ==
    /\ last_op.op = "Advance"
    /\ current_tick = 2
    /\ \E i \in 1..Len(fired) :
          /\ fired[i].type \in GenericTypes
          /\ fired[i].time = 1
          /\ fired[i].late = 1

\* C5: Idle() never decreases current_tick; with an entry pending it sets
\* current_tick to the earliest due tick when that lies ahead and leaves
\* current_tick unchanged when the earliest entry is already due.
C5_IdleMonotonic ==
    [][ last_op'.op = "Idle" =>
        /\ current_tick' >= current_tick
        /\ event_queue # <<>> =>
              IF EarliestDue(event_queue) > current_tick
              THEN current_tick' = EarliestDue(event_queue)
              ELSE current_tick' = current_tick ]_vars

\* C5 witness: Idle() has jumped forward to the due tick of a pending entry
C5_Witness ==
    /\ last_op.op = "Idle"
    /\ event_queue # <<>>
    /\ last_op.before < current_tick
    /\ Head(event_queue).time = current_tick

\* C6: UnscheduleEvent(T, u) leaves no pending entry (T, u) and leaves every other
\* entry pending with its due tick and relative order; an Advance() fires only
\* (type, userdata) pairs that were pending when it was called, and a pair
\* becomes pending only by a ScheduleEvent for it, so no callback for (T, u)
\* fires unless it is scheduled again.
C6_Unschedule ==
    [][ /\ last_op'.op = "UnscheduleEvent" =>
              /\ <<last_op'.type, last_op'.userdata>> \notin Pairs(event_queue')
              /\ Strip(event_queue') =
                    Strip(SelectSeq(event_queue,
                        LAMBDA e : <<e.type, e.userdata>> #
                                   <<last_op'.type, last_op'.userdata>>))
        /\ last_op'.op = "Advance" => Pairs(fired') \subseteq Pairs(event_queue)
        /\ Pairs(event_queue') \subseteq Pairs(event_queue) \cup
              (IF last_op'.op = "ScheduleEvent"
               THEN {<<last_op'.type, last_op'.userdata>>} ELSE {})
      ]_vars

\* C6 witness: CheatCore::Shutdown has removed the cheat tick while two other
\* entries stay pending
C6_Witness ==
    /\ last_op.op = "UnscheduleEvent"
    /\ last_op.type = tick_event
    /\ Len(event_queue) = 2

\* ========================================================== handle table
Resolve(h) == GetGeneric(objects, current_thread, current_process, h)
Refs(o) == RefCount(objects, held, current_thread, current_process, o)

\* C7: the handles returned by the Create calls made since the last Close are
\* pairwise distinct, and each resolves through GetGeneric to the object that
\* was passed to its own Create call.
C7_HandleUniqueness ==
    \A i, j \in 1..Len(batch) :
        /\ i # j => batch[i].handle # batch[j].handle
        /\ Resolve(batch[i].handle) = batch[i].obj

\* C7 holds until the counter reaches the pseudo-handle values
C7_BelowPseudoHandles == ~exhausted => C7_HandleUniqueness

\* C8: after Close(h) succeeds for a handle h of the table, GetGeneric(h) is
\* null and every other handle of the table resolves as before; Duplicate(h)
\* returns h2 # h that resolves to the object of h (so that h2 still resolves
\* to it after Close(h)).
C8_Step ==
    /\ (ht_last'.op = "Close" /\ ht_last'.rc = RESULT_SUCCESS) =>
          /\ GetGeneric(objects', current_thread', current_process',
                        ht_last'.handle) = NULL
          /\ \A h2 \in DOMAIN objects \ {ht_last'.handle} :
                GetGeneric(objects', current_thread', current_process', h2)
                   = Resolve(h2)
    /\ (ht_last'.op = "Duplicate" /\ ht_last'.rc = RESULT_SUCCESS
          /\ IsValid(objects, ht_last'.handle)) =>
          /\ ht_last'.ret # ht_last'.handle
          /\ GetGeneric(objects', current_thread', current_process',
                        ht_last'.ret) = objects[ht_last'.handle]

C8_HandleLifecycle == [][C8_Step]_vars

\* C8 holds until the counter reaches the pseudo-handle values
C8_BelowPseudoHandles == [][~exhausted' => C8_Step]_vars

\* C9: an object is alive exactly while a table handle or an internal reference
\* to it exists; Close of one of several references does not destroy the
\* object, Close of the last one does.
C9_ObjectLifetime ==
    /\ [](\A o \in Obj :
            /\ Refs(o) > 0 => o \in Alive
            /\ (o \in born /\ Refs(o) = 0) => o \in destroyed)
    /\ [][ (ht_last'.op = "Close" /\ ht_last'.rc = RESULT_SUCCESS) =>
              LET o == objects[ht_last'.handle]
              IN  /\ o \notin destroyed
                  /\ Refs(o) > 1 => o \notin destroyed'
                  /\ Refs(o) = 1 => o \in destroyed' ]_vars

\* C9 witness: the Close of the last handle has destroyed the object, while
\* the other object lives on through a handle alone
C9_Witness ==
    /\ ht_last.op = "Close"
    /\ ht_last.rc = RESULT_SUCCESS
    /\ ht_last.obj \in destroyed
    /\ \E o \in Alive : ~held[o] /\ current_thread # o /\ current_process # o

\* C10 (as amended): Close(h) for h not in the table, and Duplicate(h) for h
\* that is neither in the table nor a pseudo-handle of an existing current
\* thread or process, return ERR_INVALID_HANDLE and change neither the table,
\* the counter nor any object; Close(h) right after a successful Close(h) is
\* such a call.
C10_InvalidHandle ==
    [][ /\ ( \/ /\ ht_last'.op = "Close"
                /\ ~IsValid(objects, ht_last'.handle)
             \/ /\ ht_last'.op = "Duplicate"
                /\ ~IsValid(objects, ht_last'.handle)
                /\ ~(ht_last'.handle = CurrentThread /\ current_thread # NULL)
                /\ ~(ht_last'.handle = CurrentProcess /\ current_process # NULL) )
          => /\ ht_last'.rc = ERR_INVALID_HANDLE
             /\ objects' = objects
             /\ handle_counter' = handle_counter
             /\ destroyed' = destroyed
        /\ (ht_last.op = "Close" /\ ht_last.rc = RESULT_SUCCESS
              /\ ht_last'.op = "Close" /\ ht_last'.handle = ht_last.handle)
          => /\ ht_last'.rc = ERR_INVALID_HANDLE
             /\ objects' = objects
      ]_vars

\* C10 witness: a Close was refused while the closed handle's object still has
\* another handle in the table
C10_Witness ==
    /\ ht_last.op = "Close"
    /\ ht_last.rc = ERR_INVALID_HANDLE
    /\ ht_last.handle \notin {CurrentThread, CurrentProcess}
    /\ objects # Clear(objects)

\* C10 as stated: Duplicate(h) and Close(h) for h not in the table return
\* ERR_INVALID_HANDLE and change neither the table nor the counter.
C10_Original ==
    [][ (ht_last'.op \in {"Close", "Duplicate"} /\ ~IsValid(objects, ht_last'.handle))
          => /\ ht_last'.rc = ERR_INVALID_HANDLE
             /\ objects' = objects
             /\ handle_counter' = handle_counter ]_vars

\* a Create or Duplicate call of the step has returned a handle
Returned == Len(batch') = Len(batch) + 1
\* the handle the call returned and the object it was asked to store
ReturnedHandle == batch'[Len(batch')].handle
ReturnedObj == batch'[Len(batch')].obj

\* C11: a handle value that was closed, or dropped by Clear(), is not returned
\* again by a later Create or Duplicate (so that a stale handle cannot come to
\* resolve to another object).
C11_NoReuse == [][Returned => ReturnedHandle \notin stale]_vars

\* C11 holds until the counter reaches the pseudo-handle values
C11_BelowPseudoHandles ==
    [][~exhausted' => (Returned => ReturnedHandle \notin stale)]_vars

\* C12: Create does not wrap around: the counter only grows, the value returned
\* is not a live handle at the time of the call, and it resolves to the object
\* passed to the call.
C12_NoWrapAround ==
    [][ Returned =>
          /\ handle_counter' > handle_counter
          /\ ~IsValid(objects, ReturnedHandle)
          /\ GetGeneric(objects', current_thread', current_process',
                        ReturnedHandle) = ReturnedObj ]_vars

\* C13: the pseudo-handle values are never keys of the table and never returned
\* by Create or Duplicate; GetGeneric of a pseudo-handle is the current thread
\* or process; Close of a pseudo-handle returns ERR_INVALID_HANDLE.
C13_PseudoHandles ==
    /\ [](/\ ~IsValid(objects, CurrentThread)
          /\ ~IsValid(objects, CurrentProcess)
          /\ Resolve(CurrentThread) = current_thread
          /\ Resolve(CurrentProcess) = current_process)
    /\ [][ /\ Returned => ReturnedHandle \notin {CurrentThread, CurrentProcess}
           /\ (ht_last'.op = "Close"
                 /\ ht_last'.handle \in {CurrentThread, CurrentProcess})
                => ht_last'.rc = ERR_INVALID_HANDLE ]_vars

\* a step that is a Duplicate call on a pseudo-handle
DuplicatedPseudo ==
    /\ ht_last'.op = "Duplicate"
    /\ ht_last'.handle \in {CurrentThread, CurrentProcess}
    /\ (ht_last' # ht_last \/ objects' # objects)

\* what C36 says of such a step: with a current thread or process the call
\* returns a value that is no pseudo-handle and was no key of the table, and
\* that resolves to the object that was current; with none it returns
\* ERR_INVALID_HANDLE and leaves the table alone
C36_Step ==
    DuplicatedPseudo =>
       LET cur == IF ht_last'.handle = CurrentThread THEN current_thread
                  ELSE current_process
       IN  IF cur = NULL
           THEN ht_last'.rc = ERR_INVALID_HANDLE /\ objects' = objects
           ELSE /\ ht_last'.rc = RESULT_SUCCESS
                /\ ht_last'.ret \notin {CurrentThread, CurrentProcess}
                /\ ~IsValid(objects, ht_last'.ret)
                /\ IsValid(objects', ht_last'.ret)
                /\ objects'[ht_last'.ret] = cur

\* C36: Duplicate of a pseudo-handle returns a newly allocated real handle of
\* the thread or process current at the call (ERR_INVALID_HANDLE with none),
\* and a change of the current thread or process changes no table entry.
C36_DuplicatePseudo ==
    [][ /\ C36_Step
        /\ (current_thread' # current_thread \/ current_process' # current_process)
              => objects' = objects ]_vars

\* the same while the counter is below the pseudo-handle values and has not
\* wrapped
C36_BelowPseudoHandles ==
    [][ ~exhausted' =>
          /\ C36_Step
          /\ (current_thread' # current_thread \/ current_process' # current_process)
                => objects' = objects ]_vars

\* ============================================================ shared page
\* C14: a reader that read the counter and then the four fields of the slot its
\* parity selects, its reads interleaved in any way with the stores and the
\* counter increment of one refresh, has the four fields of one single refresh.
C14_TearFree ==
    (r_pc = "done" /\ Cardinality(r_overlap) <= 1) =>
        \A f, g \in Fields : r_got[f] = r_got[g]

\* C14 witness: a read that started while a refresh was storing its fields and
\* ended after the counter increment of that refresh
C14_Witness ==
    /\ r_pc = "done"
    /\ r_overlap = {r_counter + 1}
    /\ date_time_counter = r_counter + 1
    /\ r_counter >= 2
    /\ \A f \in Fields : r_got[f] = r_counter

\* not claimed, and not true: the same for a read that two successive refreshes
\* overlap (the second one stores into the slot being read)
C14_TwoRefreshes ==
    r_pc = "done" => \A f, g \in Fields : r_got[f] = r_got[g]

\* C29: a step of a refresh leaves the time slot the counter parity selects
\* for readers and wifi_macaddr (the non-time field) as they are; the counter
\* changes only by the step after the four stores, by exactly one, with the four
\* fields of the other slot holding the values of this refresh and no slot
\* changed by that step.
C29_RefreshFrame ==
    [][ w_pc' # w_pc =>
          LET active   == IF ReadSlot(date_time_counter) = 0 THEN date_time_0
                          ELSE date_time_1
              active2  == IF ReadSlot(date_time_counter) = 0 THEN date_time_0'
                          ELSE date_time_1'
              inactive == IF ReadSlot(date_time_counter) = 0 THEN date_time_1
                          ELSE date_time_0
          IN  /\ active2 = active
              /\ wifi_macaddr' = wifi_macaddr
              /\ date_time_counter' # date_time_counter =>
                    /\ date_time_counter' = date_time_counter + 1
                    /\ w_pc = Len(WriteOrder)
                    /\ \A f \in Fields : inactive[f] = date_time_counter + 1
                    /\ date_time_0' = date_time_0
                    /\ date_time_1' = date_time_1 ]_vars

\* C29 witness: two whole refreshes have run on a page whose MAC address was
\* set: the first filled date_time_1, the second date_time_0
C29_Witness ==
    /\ date_time_counter = 2
    /\ w_pc = 0
    /\ wifi_macaddr \in MacAddresses
    /\ \A f \in Fields : date_time_1[f] = 1 /\ date_time_0[f] = 2

\* the re-arming period of an event type
PeriodOf(type) == IF type = update_time_event THEN RefreshPeriod ELSE CheatPeriod

FiredOf(type) == SelectSeq(fired, LAMBDA rec : rec.type = type)

PendingOf(q, type) == Len(SelectSeq(q, LAMBDA e : e.type = type))

\* C37: between two operations of the clock (no callback is executing) the
\* queue holds one pending cheat tick between CheatCore::Init and
\* CheatCore::Shutdown and none otherwise; it never holds two refresh entries,
\* and it holds one from the construction of the shared page on.
C37_OnePending ==
    /\ [](PendingOf(event_queue, tick_event) = IF cheat_active THEN 1 ELSE 0)
    /\ [](PendingOf(event_queue, update_time_event) <= 1)
    /\ [][ ( \/ PendingOf(event_queue, update_time_event) = 1
             \/ (last_op'.op = "ScheduleEvent" /\ last_op'.type = update_time_event
                   /\ last_op' # last_op) )
           => PendingOf(event_queue', update_time_event) = 1 ]_vars

\* C37 witness: one entry of each type is pending after an Advance() that
\* fired refreshes and cheat ticks, three or more, and re-armed them
C37_Witness ==
    /\ last_op.op = "Advance"
    /\ Len(fired) >= 3
    /\ FiredOf(update_time_event) # <<>>
    /\ FiredOf(tick_event) # <<>>
    /\ cheat_active
    /\ PendingOf(event_queue, tick_event) = 1
    /\ PendingOf(event_queue, update_time_event) = 1

\* ====================================================== system controller
\* the stages of the last Load that failed
LoadFailed ==
    \/ ~sys_last.got_loader
    \/ sys_last.mode_result # "Success"
    \/ sys_last.init_result # "Success"
    \/ sys_last.load_result # "Success"

\* the loader reported an invalid format at the first stage that failed
CorruptImage ==
    /\ sys_last.got_loader
    /\ \/ sys_last.mode_result = "ErrorInvalidFormat"
       \/ /\ sys_last.mode_result = "Success"
          /\ sys_last.init_result = "Success"
          /\ sys_last.load_result = "ErrorInvalidFormat"

C16_PausedAfterLoad == [][(~cpu_core /\ cpu_core') => ~running']_vars

\* C17: the machine thread is never blocked in the pause wait while the
\* running flag is true and no notification is on its way.
C17_NoLostResume == ~(m_pc = "waiting" /\ running /\ c_pc = "out")

\* C18: an iteration that left the pause wait while the running flag was false
\* performs neither Idle(), Advance() nor Run().
C18_NoWorkWhilePaused ==
    [][(m_pc = "body" /\ m_pc' = "finish") => ~woke_paused]_vars

\* C19: an iteration that started with the shutdown-requested flag set
\* performs no Run(), and an iteration that finds the flag set at its end
\* returns ShutdownRequested.
C19_NoRunAfterRequest ==
    [][ /\ (m_pc = "body" /\ m_pc' = "finish" /\ work'[2] = "Run") => ~flag_at_entry
        /\ (m_pc = "finish" /\ m_pc' = "out" /\ shutdown_requested)
              => sys_last'.ret = "ShutdownRequested" ]_vars

\* C20: a RunLoop call of the powered-on system that returns while the
\* shutdown-requested flag is set returns ShutdownRequested and clears the
\* flag, in every mode of the loop; one that returns while the flag is clear
\* does not return ShutdownRequested.
C20_ReportedOnce ==
    [][ (m_pc \in {"body", "finish"} /\ m_pc' = "out") =>
          IF shutdown_requested
          THEN sys_last'.ret = "ShutdownRequested" /\ ~shutdown_requested'
          ELSE sys_last'.ret # "ShutdownRequested" ]_vars

\* C21: an iteration of RunLoop with a runnable thread performs Run(), then
\* Advance(), then the reschedule evaluation, so that no event that became due
\* during the burst is still pending at the reschedule decision; with no
\* runnable thread it performs Idle(), then Advance(), then the reschedule
\* evaluation.
C21_StepOrder ==
    [][(m_pc = "body" /\ m_pc' = "finish") =>
          IF current_thread # NULL
          THEN /\ Len(work') >= 2
               /\ SubSeq(work', 1, 2) = <<"Run", "Advance">>
               /\ ~IsDue(event_queue', current_tick')
          ELSE /\ Len(work') >= 2
               /\ SubSeq(work', 1, 2) = <<"Idle", "Advance">>]_vars

\* the steps of Shutdown that destroy a subsystem other than the queue itself
Destroys(step) == step \notin {"CheatCore", "CoreTiming"}

\* C22: Shutdown has removed every pending event from the queue before it
\* destroys the first subsystem (the shared-page refresh and the cheat tick
\* included), no callback is invoked from the start of Shutdown on, and after
\* Shutdown the queue holds no entry.
C22_ShutdownDrains ==
    /\ \A i \in 1..Len(shutdown_trace) :
          Destroys(shutdown_trace[i].step) => shutdown_trace[i].pending = {}
    /\ sys_last.op = "Shutdown" => fired = <<>>
    /\ ~cpu_core => event_queue = <<>>

Reverse(seq) == [i \in 1..Len(seq) |-> seq[Len(seq) + 1 - i]]
Range(seq) == {seq[i] : i \in 1..Len(seq)}
Restrict(seq, S) == SelectSeq(seq, LAMBDA x : x \in S)
Position(seq, x) == CHOOSE i \in 1..Len(seq) : seq[i] = x

\* the subsystems the order of which the specification names
Named == <<"CoreTiming", "kernel", "cpu_core", "shared_page_handler">>

\* C23: Load constructs the Event Queue, the Kernel Object Table, the CPU
\* Execution Unit and the Shared Page in that order, followed by the service
\* layers, and Shutdown destroys what was constructed in exactly the reverse
\* order.
C23_ReverseOrder ==
    /\ init_trace # <<>> =>
          /\ Restrict(init_trace, Range(Named)) = Named
          /\ \A x \in Range(init_trace) \ Range(Named) :
                Position(init_trace, x) > Position(init_trace, "shared_page_handler")
    /\ shutdown_trace # <<>> =>
          Restrict([i \in 1..Len(shutdown_trace) |-> shutdown_trace[i].step],
                   Range(init_trace)) = Reverse(init_trace)

\* ================================================= CPU execution unit
\* the ticks one block of `cycles` executed cycles reports under the settings
TickPolicy(mode, ticks, program_id, cycles) ==
    CASE mode = "Accurate" -> cycles
      [] mode = "Custom"   -> ticks
      [] mode = "Auto"     -> IF program_id = "listed" THEN custom_ticks_map["listed"]
                              ELSE cycles

\* C24: with the system powered on, the tick count a block reports to the
\* clock is a function of the settings and the title only (exact: the cycles
\* executed; custom: the user's constant; per-title: the table's constant for
\* a listed title, else the cycles executed), whatever the override state was
\* before the last SyncSettings.
C24_TickPolicy ==
    /\ [](cpu_core =>
            \A cycles \in BlockCycles :
               EffectiveTicks(use_custom_ticks, custom_ticks, cycles)
                  = TickPolicy(settings.ticks_mode, settings.ticks, title, cycles))
    /\ [][(cpu_core /\ last_op'.op = "AddTicks") =>
             current_tick' - current_tick
                = TickPolicy(settings.ticks_mode, settings.ticks, title,
                             last_op'.delay)]_vars

\* a block was reported under a per-title override that replaced an earlier
\* custom constant
C24_Witness ==
    /\ cpu_core
    /\ last_op.op = "AddTicks"
    /\ settings.ticks_mode = "Auto"
    /\ title = "listed"
    /\ settings.ticks # custom_ticks_map["listed"]
    /\ current_tick - last_op.before = custom_ticks_map["listed"]
    /\ last_op.delay # custom_ticks_map["listed"]

\* C25: the CPU holds exactly one translation cache per distinct page table
\* it has been switched to, the active cache is the one keyed by the current
\* page table, a switch back to a page table seen before takes its cache again
\* without making one, and Run() never executes with another table's cache.
C25_OneCachePerTable ==
    /\ [](cpu_core =>
            /\ jit_made = Cardinality(DOMAIN jits)
            /\ \A t1, t2 \in DOMAIN jits : jits[t1] = jits[t2] => t1 = t2
            /\ current_page_table = mem_page_table
            /\ current_page_table \in DOMAIN jits
            /\ jit = jits[current_page_table]
            /\ ran_with.jit # NoJit =>
                  /\ ~ran_with.asserted
                  /\ ran_with.table \in DOMAIN jits
                  /\ ran_with.jit = jits[ran_with.table])
    /\ [][(cpu_core /\ cpu_core' /\ mem_page_table' \in DOMAIN jits) =>
             /\ jits' = jits
             /\ jit' = jits[mem_page_table']]_vars

\* the guest ran in the first address space again after a second one had got
\* its cache
C25_Witness ==
    /\ cpu_core
    /\ PageTables \subseteq DOMAIN jits
    /\ current_page_table = ProcessTable
    /\ ran_with.jit = jits[ProcessTable]
    /\ ran_with.table = ProcessTable
    /\ \E t \in PageTables : jits[t] > jits[ProcessTable]

\* C27 as stated: LoadContext(c) after SaveContext(c) restores the whole
\* context bit for bit: the general registers, the floating-point registers,
\* the status register, and the VFP and CP15 system registers.
C27_FullContext ==
    (cpu_core /\ at_save.valid) =>
        /\ jit_state[jit] = at_save.jit_state
        /\ vfp = at_save.vfp
        /\ cp15 = at_save.cp15

\* C27 (amended): LoadContext(c) after SaveContext(c) restores, bit for bit,
\* the general registers, the floating-point registers, CPSR, FPSCR and FPEXC,
\* and leaves the other VFP system registers and the CP15 registers as they
\* are.
C27_SavedContext ==
    /\ []((cpu_core /\ at_save.valid) =>
            /\ jit_state[jit] = at_save.jit_state
            /\ vfp["VFP_FPEXC"] = at_save.vfp["VFP_FPEXC"])
    /\ [][(cpu_core /\ cpu_core' /\ at_save'.valid) =>
             /\ cp15' = cp15
             /\ \A reg \in VfpRegs \ {"VFP_FPEXC"} : vfp'[reg] = vfp[reg]]_vars

\* a context was loaded over registers that had all changed since it was saved
C27_Witness ==
    /\ cpu_core
    /\ at_save.valid
    /\ at_save.jit_state = [part \in JitParts |-> 1]
    /\ at_save.vfp["VFP_FPEXC"] = 1
    /\ at_save.cp15 = 1
    /\ cp15 = 0

\* C26: every write to guest memory made outside translated code (by a cheat,
\* by the RPC WriteMemory handler) is followed, before guest code runs again,
\* by an InvalidateCacheRange that covers all the bytes written: Run() never
\* starts with a byte written and not invalidated.
C26_InvalidatedBeforeRun == ran_with.unflushed = {}

\* C28: while the machine thread is inside RunLoop no other host thread calls
\* into the CPU execution unit, the event queue or the handle table.
C28_SingleOwner == foreign = {}

\* ================================================================ sessions
\* C31: a system that is not powered on (before the first Load, after every
\* Shutdown) has the machine thread outside RunLoop, and a RunLoop call on it
\* returns ErrorNotInitialized in one step that leaves the clock alone; a
\* Load that powers the system on starts with the clock at 0, only the events
\* Init schedules pending, an empty handle table, no shutdown request and the
\* machine running, whatever the previous session left.
C31_Sessions ==
    /\ [](~cpu_core => m_pc = "out")
    /\ [][ /\ (sys_last'.op = "Shutdown" /\ sys_last' # sys_last) => ~cpu_core'
           /\ (~cpu_core /\ sys_last'.op = "RunLoop" /\ sys_last' # sys_last) =>
                 /\ sys_last'.ret = "ErrorNotInitialized"
                 /\ m_pc' = "out"
                 /\ UNCHANGED <<current_tick, event_queue>>
           /\ (~cpu_core /\ cpu_core') =>
                 /\ current_tick' = 0
                 /\ event_queue' = InitQueue
                 /\ DOMAIN objects' = {}
                 /\ ~shutdown_requested'
                 /\ running' ]_vars

\* C31 witness: a session that follows one which was shut down while paused,
\* with a handle open and a guest event pending
C31_Witness ==
    /\ cpu_core
    /\ sys_last.op = "Load"
    /\ stale # {}
    /\ handle_counter > 0
    /\ event_queue = InitQueue
    /\ running

\* C31 witness of the unpowered RunLoop: it returned ErrorNotInitialized after
\* a session was shut down
C31_Unpowered ==
    /\ ~cpu_core
    /\ sys_last = Returns("RunLoop", "ErrorNotInitialized")
    /\ stale # {}

\* ================================================================== bursts
\* no pending entry is due at tick now
NothingDue(q, now) == \A i \in 1..Len(q) : q[i].time > now

C33_IdleFires ==
    [][ (m_pc = "body" /\ m_pc' # "body" /\ running /\ current_thread = NULL) =>
           fired' # <<>> ]_vars

\* the same for the iterations in which audio output is allowed: the idle
\* branch fires the earliest pending entry at its due tick
C33_IdleBranch ==
    [][ (m_pc = "body" /\ m_pc' # "body" /\ running /\ current_thread = NULL
           /\ output_allowed) =>
           /\ fired' # <<>>
           /\ fired'[1].fifo = Head(event_queue).fifo
           /\ current_tick' = Max(current_tick, Head(event_queue).time) ]_vars

\* C35: every block a burst executes moves current_tick forward, whatever the
\* ticks mode and the custom constant.
C35_BlockAdvances ==
    [][ (m_pc = "run" /\ last_op'.op = "AddTicks" /\ last_op' # last_op) =>
           current_tick' > current_tick ]_vars

\* ======================================================== application requests
\* C38: when a RunLoop call returns ShutdownRequested because of
\* SetApplication(p), Restart() or CloseApplication(), the target path the
\* embedding application then reads is the path of the most recent request,
\* for every interleaving of the requesting thread with the machine thread and
\* the UI thread.
C38_TargetIsLatest ==
    [][ (ui_pc = "stopping" /\ ui_pc' # "stopping") => target' = requested ]_vars

\* ========================================================== console clock
\* the time the claim expects a session to start at: the host time plus one
\* hour in daylight-saving time, the host time outside it, the configured
\* time under a fixed clock
ExpectedInitTime ==
    IF init_input.init_clock = "SystemTime"
    THEN IF init_input.isdst THEN init_input.now + 1 ELSE init_input.now
    ELSE init_input.init_time

\* C39: when the clock is initialized from host system time and the host is in
\* daylight-saving time, the initial console time is the host time plus
\* exactly one hour; outside daylight-saving time it equals the host time, and
\* with a fixed clock the configured time (stated for the times from 2000 on,
\* which a console can show: on Module::init_time, and on what the first
\* refresh stores).
C39_InitialTime ==
    (cpu_core /\ ExpectedInitTime > Epoch2000) =>
        /\ init_time = ExpectedInitTime
        /\ date_time_counter = 1 =>
              console_time = Base1900 + (ExpectedInitTime - Epoch2000)

\* ============================================================ RPC requests
\* a request that fails validation, in the claim's words: a version above the
\* current one, an unknown type, a payload shorter than 8 bytes, or a memory
\* read/write size of 0 or above the maximum
FailsValidation(p) ==
    \/ p.version > CURRENT_VERSION
    \/ p.packet_type \notin KnownTypes
    \/ p.packet_size < 8
    \/ /\ p.packet_type \in MemoryTypes
       /\ p.data_size = 0 \/ p.data_size > MAX_READ_WRITE_SIZE

\* C40: every request packet taken from the RPC queue produces exactly one
\* reply: a valid request of a known type gets its handler's reply, and a
\* request that fails validation gets a single empty reply and has no effect
\* on guest memory or emulator state.
C40_OneReply ==
    [][ (request_queue # <<>> /\ request_queue' = Tail(request_queue)) =>
          LET p == Head(request_queue)
          IN  /\ Len(replies') = 1
              /\ replies'[1].packet_type = p.packet_type
              /\ ~FailsValidation(p) => replies'[1].packet_size = HandlerReply(p)
              /\ FailsValidation(p) =>
                    /\ replies'[1].packet_size = 0
                    /\ UNCHANGED <<written, pad_state, sys_vars, clock_vars,
                                   table_vars, page_vars, app_vars, m_filepath,
                                   tick_vars, jit_vars, reg_vars, cache_vars>> ]_vars

\* C40 witness: a write request of size 0 was answered with one empty reply
\* and the queue is empty again, after an earlier write request was carried out
C40_Witness ==
    /\ request_queue = <<>>
    /\ Len(replies) = 1
    /\ replies[1].packet_type = "WriteMemory"
    /\ replies[1].data_size = 0
    /\ replies[1].packet_size = 0
    /\ written # {}

====
